---------------------------- MODULE Spec2Model ----------------------------
(***************************************************************************)
(* A model of the JDBC bridge of sqlalchemy-jdbcapi:                       *)
(*   jdbc/jvm.py             start_jvm, shutdown_jvm (module flag + JPype)  *)
(*   jdbc/connection.py      Connection                                     *)
(*   jdbc/cursor.py          Cursor                                         *)
(*   jdbc/driver_manager.py  download_driver, get_driver_path, ...          *)
(*                                                                         *)
(* The embedded VM (JPype), the JDBC driver objects, the file system and   *)
(* the network are the environment: their answers are nondeterministic     *)
(* choices made by the actions (a native call may raise, a download may    *)
(* deliver a bad body).  Every API operation is one action that models the *)
(* whole handler; it records in op the call, in result what the caller     *)
(* got, and in trace the native calls the handler made, in order.          *)
(*                                                                         *)
(* Specifications:                                                         *)
(*   SpecJvm         sequential calls of start_jvm / shutdown_jvm          *)
(*   SpecJvmThreads  start_jvm called from several threads, interleaved    *)
(*                   at the granularity of its statements                  *)
(*   Spec            one Connection and one Cursor of it                   *)
(*   SpecDrivers     the driver cache: download_driver, get_driver_path    *)
(***************************************************************************)
EXTENDS Integers, Sequences, FiniteSets, TLC

VARIABLES
    \* ---- jdbc/jvm.py and the JPype runtime
    jvm_started,    \* the module global _jvm_started
    vm,             \* the process's VM: "NotStarted", "Running", "Stopped"
    vmArgs,         \* the arguments the running VM was started with
    startLog,       \* the state of the VM at each jpype.startJVM invocation
    callerArgs,     \* a list object the caller keeps and passes as jvm_args
    \* ---- threads calling start_jvm (SpecJvmThreads)
    pc, targ, tres,
    \* ---- the last API call of the sequential specifications
    op, result, trace, returned,
    \* ---- jdbc/connection.py, jdbc/cursor.py and the JDBC objects
    conn,           \* the Connection object
    nconn,          \* the native java.sql.Connection
    cur,            \* the Cursor object
    nstmt,          \* the native statements (with their result sets)
    \* ---- jdbc/driver_manager.py, the cache directory and the network
    cacheFile, tmpFile, requests,
    \* ---- jdbc/async_connection.py, jdbc/async_cursor.py
    awrap           \* the AsyncConnection or AsyncCursor the tasks use

jvmVars    == <<jvm_started, vm, vmArgs, startLog, callerArgs>>
threadVars == <<pc, targ, tres>>
apiVars    == <<op, result, trace, returned>>
dbVars     == <<conn, nconn, cur, nstmt>>
fsVars     == <<cacheFile, tmpFile, requests>>
asyncVars  == <<awrap>>
vars       == <<jvmVars, threadVars, apiVars, dbVars, fsVars, asyncVars>>

None == "None"

\* A call into the embedded runtime, as trace records it: the method, the
\* native statement it is made on (0: none) and its argument.
NativeCall(call, h, arg) == [call |-> call, h |-> h, arg |-> arg, i |-> 0]
NC(call) == NativeCall(call, 0, "")
\* ... and the position of a bound parameter
NativeBind(call, h, i, arg) == [call |-> call, h |-> h, arg |-> arg, i |-> i]

\* the calls of a trace, by method name
Calls(tr) == [i \in 1..Len(tr) |-> tr[i].call]
HasCall(tr, name) == \E i \in 1..Len(tr) : tr[i].call = name
CountCall(tr, name) == Cardinality({i \in 1..Len(tr) : tr[i].call = name})

(***************************************************************************)
(* Bounds of the model.                                                    *)
(***************************************************************************)
\* jpype.startJVM is invoked at most this often in one behaviour
MaxNativeStarts == 3
\* threads of SpecJvmThreads
NumThreads == 2

Threads == 1..NumThreads

(***************************************************************************)
(* jdbc/jvm.py                                                             *)
(***************************************************************************)
Jars == {"a.jar", "b.jar"}

\* the classpath lists a caller passes
ClasspathChoices == {<<>>, <<"a.jar">>, <<"b.jar">>, <<"a.jar", "b.jar">>}

\* os.pathsep.join(str(p) for p in classpath)
RECURSIVE JoinPaths(_)
JoinPaths(cp) ==
    IF cp = <<>> THEN ""
    ELSE IF Len(cp) = 1 THEN cp[1]
    ELSE cp[1] \o ":" \o JoinPaths(Tail(cp))

\* args = jvm_args or []; if classpath_str: args.append("-Djava.class.path=...")
\* jvm_args=None is passed as <<>>: `jvm_args or []` makes a new list for both.
BuildArgs(jvm_args, classpath) ==
    LET classpath_str == JoinPaths(classpath)
        args == jvm_args
    IN  IF classpath_str # "" THEN Append(args, "-Djava.class.path=" \o classpath_str)
        ELSE args

\* The list object behind jvm_args after the call: `jvm_args or []` is the
\* caller's own list when that list is non-empty, and args.append changes it.
CallerListAfter(jvm_args, classpath) ==
    IF jvm_args # <<>> THEN BuildArgs(jvm_args, classpath) ELSE jvm_args

\* A mutant of StartSkipped: the VM started by someone else is not detected.
StartSkippedFlagOnly(flag, vmstate) == flag

\* start_jvm returns before building a classpath: the flag is set, or
\* jpype.isJVMStarted() answers true.
StartSkipped(flag, vmstate) == flag \/ vmstate = "Running"

\* What jpype.startJVM can do in a state of the VM: a VM that is running or
\* was shut down cannot be started (JPype raises OSError); otherwise the
\* runtime starts, or fails to initialise.
NativeStartOutcomes(vmstate) ==
    IF vmstate = "NotStarted" THEN {"started", "failed"} ELSE {"failed"}

\* a mutant of StartJvmEffect: the flag is set whatever jpype.startJVM does
StartJvmEffectFlagAlways(classpath, jvm_args, passList, outcome) ==
    IF StartSkipped(jvm_started, vm)
    THEN [jvm_started |-> TRUE, vm |-> vm, vmArgs |-> vmArgs,
          startLog |-> startLog, callerArgs |-> callerArgs, result |-> "ok",
          trace |-> IF jvm_started THEN <<>> ELSE <<NC("jpype.isJVMStarted")>>]
    ELSE [jvm_started |-> TRUE,
          vm |-> IF outcome = "started" THEN "Running" ELSE vm,
          vmArgs |-> IF outcome = "started" THEN BuildArgs(jvm_args, classpath)
                     ELSE vmArgs,
          startLog |-> Append(startLog, vm),
          callerArgs |-> IF passList THEN CallerListAfter(jvm_args, classpath)
                         ELSE callerArgs,
          result |-> IF outcome = "started" THEN "ok" ELSE "JVMNotStartedError",
          trace |-> <<NC("jpype.isJVMStarted"), NC("jpype.startJVM")>>]

\* start_jvm(classpath, jvm_args=jvm_args), the whole call, as the values it
\* leaves behind.  passList: jvm_args is the list the caller keeps; outcome
\* is what jpype.startJVM does if it is reached.
StartJvmEffect(classpath, jvm_args, passList, outcome) ==
    IF StartSkipped(jvm_started, vm)
    THEN [jvm_started |-> TRUE, vm |-> vm, vmArgs |-> vmArgs,
          startLog |-> startLog, callerArgs |-> callerArgs, result |-> "ok",
          trace |-> IF jvm_started THEN <<>> ELSE <<NC("jpype.isJVMStarted")>>]
    ELSE [jvm_started |-> outcome = "started",
          vm |-> IF outcome = "started" THEN "Running" ELSE vm,
          vmArgs |-> IF outcome = "started" THEN BuildArgs(jvm_args, classpath)
                     ELSE vmArgs,
          startLog |-> Append(startLog, vm),
          callerArgs |-> IF passList THEN CallerListAfter(jvm_args, classpath)
                         ELSE callerArgs,
          result |-> IF outcome = "started" THEN "ok" ELSE "JVMNotStartedError",
          trace |-> <<NC("jpype.isJVMStarted"), NC("jpype.startJVM")>>]

\* the outcomes of jpype.startJVM a call of start_jvm can meet
StartOutcomes ==
    IF StartSkipped(jvm_started, vm) THEN {"skipped"}
    ELSE IF Len(startLog) < MaxNativeStarts THEN NativeStartOutcomes(vm)
    ELSE {}

\* start_jvm(classpath=..., jvm_args=...): the caller passes jvm_args=None or
\* the list it keeps.
StartJvm ==
    \E classpath \in ClasspathChoices, passList \in BOOLEAN,
       outcome \in StartOutcomes :
        LET e == StartJvmEffect(classpath,
                                IF passList THEN callerArgs ELSE <<>>,
                                passList, outcome)
        IN  /\ jvm_started' = e.jvm_started
            /\ vm' = e.vm
            /\ vmArgs' = e.vmArgs
            /\ startLog' = e.startLog
            /\ callerArgs' = e.callerArgs
            /\ result' = e.result
            /\ trace' = e.trace
            /\ op' = [name |-> "start_jvm", classpath |-> classpath]
            /\ returned' = <<>>
            /\ UNCHANGED <<threadVars, dbVars, fsVars, asyncVars>>

\* a mutant of ShutdownJvm: the module keeps its record of a started VM
ShutdownJvmKeepingFlag ==
    /\ IF vm = "Running"
       THEN /\ vm' = "Stopped"
            /\ trace' = <<NC("jpype.isJVMStarted"), NC("jpype.shutdownJVM")>>
       ELSE /\ UNCHANGED vm
            /\ trace' = <<NC("jpype.isJVMStarted")>>
    /\ result' = "ok"
    /\ op' = [name |-> "shutdown_jvm"]
    /\ returned' = <<>>
    /\ UNCHANGED <<jvm_started, vmArgs, startLog, callerArgs, threadVars, dbVars,
                   fsVars, asyncVars>>

\* shutdown_jvm().  jpype.shutdownJVM stops the VM, or refuses (it raises
\* RuntimeError when it is not called from the main thread) and leaves the VM
\* running; only ImportError is caught, and `_jvm_started = False` follows
\* the native call.
ShutdownJvm ==
    /\ IF vm = "Running"
       THEN /\ trace' = <<NC("jpype.isJVMStarted"), NC("jpype.shutdownJVM")>>
            /\ \/ /\ vm' = "Stopped"
                  /\ jvm_started' = FALSE
                  /\ result' = "ok"
               \/ /\ UNCHANGED <<vm, jvm_started>>
                  /\ result' = "RuntimeError"
       ELSE /\ UNCHANGED <<vm, jvm_started>>
            /\ trace' = <<NC("jpype.isJVMStarted")>>
            /\ result' = "ok"
    /\ op' = [name |-> "shutdown_jvm"]
    /\ returned' = <<>>
    /\ UNCHANGED <<vmArgs, startLog, callerArgs, threadVars, dbVars, fsVars, asyncVars>>

(***************************************************************************)
(* start_jvm called from several threads.  A thread switch can happen      *)
(* between any two statements, so each statement that reads or writes the  *)
(* shared state is a step of its own.                                      *)
(***************************************************************************)
\* a thread enters start_jvm(classpath=cp)
T_Call(t) ==
    /\ pc[t] = "idle"
    /\ \E cp \in ClasspathChoices : targ' = [targ EXCEPT ![t] = cp]
    /\ pc' = [pc EXCEPT ![t] = "check_flag"]
    /\ UNCHANGED <<jvmVars, tres, apiVars, dbVars, fsVars, asyncVars>>

\* if _jvm_started: return
T_CheckFlag(t) ==
    /\ pc[t] = "check_flag"
    /\ IF jvm_started
       THEN /\ pc' = [pc EXCEPT ![t] = "done"]
            /\ tres' = [tres EXCEPT ![t] = "ok"]
       ELSE /\ pc' = [pc EXCEPT ![t] = "check_jpype"]
            /\ UNCHANGED tres
    /\ UNCHANGED <<jvmVars, targ, apiVars, dbVars, fsVars, asyncVars>>

\* if jpype.isJVMStarted(): _jvm_started = True; return
T_CheckJpype(t) ==
    /\ pc[t] = "check_jpype"
    /\ IF vm = "Running"
       THEN /\ jvm_started' = TRUE
            /\ pc' = [pc EXCEPT ![t] = "done"]
            /\ tres' = [tres EXCEPT ![t] = "ok"]
       ELSE /\ pc' = [pc EXCEPT ![t] = "start"]
            /\ UNCHANGED <<jvm_started, tres>>
    /\ UNCHANGED <<vm, vmArgs, startLog, callerArgs, targ, apiVars, dbVars, fsVars,
                   asyncVars>>

\* jpype.startJVM(*args, convertStrings=True), and the except clause
T_NativeStart(t) ==
    /\ pc[t] = "start"
    /\ startLog' = Append(startLog, vm)
    /\ \E outcome \in NativeStartOutcomes(vm) :
        IF outcome = "started"
        THEN /\ vm' = "Running"
             /\ vmArgs' = BuildArgs(<<>>, targ[t])
             /\ pc' = [pc EXCEPT ![t] = "set_flag"]
             /\ UNCHANGED tres
        ELSE /\ UNCHANGED <<vm, vmArgs>>
             /\ pc' = [pc EXCEPT ![t] = "done"]
             /\ tres' = [tres EXCEPT ![t] =
                            IF vm = "Running" THEN "JVMNotStartedError: already started"
                            ELSE "JVMNotStartedError"]
    /\ UNCHANGED <<jvm_started, callerArgs, targ, apiVars, dbVars, fsVars, asyncVars>>

\* _jvm_started = True
T_SetFlag(t) ==
    /\ pc[t] = "set_flag"
    /\ jvm_started' = TRUE
    /\ pc' = [pc EXCEPT ![t] = "done"]
    /\ tres' = [tres EXCEPT ![t] = "ok"]
    /\ UNCHANGED <<vm, vmArgs, startLog, callerArgs, targ, apiVars, dbVars, fsVars,
                   asyncVars>>

(***************************************************************************)
(* The JDBC objects behind a Connection and its Cursor.                    *)
(*                                                                         *)
(* nconn: [state, closeCalls] of the java.sql.Connection; state is "none"  *)
(* before getConnection returned it, then "open" or "closed".              *)
(* nstmt: the native statements in creation order; a Cursor refers to one  *)
(* by its index.  A statement has at most one result set, kept with it:    *)
(*   state  "open" or "closed"        closeCalls    close() invocations    *)
(*   sql    the operation                                                  *)
(*   rs     "none", "open", "closed"  rsCloseCalls  close() invocations    *)
(*   pos    the row the result set is on (0: before the first row,         *)
(*          NumRows + 1: after the last row)                               *)
(***************************************************************************)
\* the native statements one behaviour creates
MaxStmts == 2
\* rows of every query's result
NumRows == 2
\* the close() invocations counted on one native handle (then it saturates)
MaxCloseCount == 2
\* the largest size passed to fetchmany
MaxFetch == 2

\* operations: two queries and one update
Operations == {"A", "B", "U"}
HasResultSet(sql) == sql \in {"A", "B"}

\* the rows a fetch returns: row i of query q; () is the empty tuple
Row(q, i) == [q |-> q, i |-> i]
EmptyTuple == Row("()", 0)

\* The parameters of execute.  <<>> stands for parameters=None and for an
\* empty sequence: the code tests `if parameters:` and both are falsy.
ParamChoices == {<<>>, <<"v">>, <<None, "v">>}
Truthy(parameters) == parameters # <<>>

Bump(n) == IF n < MaxCloseCount THEN n + 1 ELSE n

NewStmt(sql) ==
    [state |-> "open", closeCalls |-> 0, sql |-> sql,
     rs |-> "none", rsCloseCalls |-> 0, pos |-> 0]

\* a step of a handler that is not a native call (an assignment)
IsNative(s) ==
    s.call \notin {"py:reset", "py:description", "py:rowcount", "py:rs", "py:raise"}

\* A native call that raises whatever the environment does: the JDBC driver
\* refuses to create a statement on a closed connection and to advance a
\* closed result set.
MustFail(st, s) ==
    \/ s.call = "py:raise"
    \/ s.call \in {"createStatement", "prepareStatement"} /\ st.k.state = "closed"
    \/ s.call = "next" /\ st.n[s.h].rs # "open"

\* java.sql.Statement.close(): closes the statement and its result set
NativeStmtClose(r) ==
    [r EXCEPT !.state = "closed", !.rs = IF r.rs = "open" THEN "closed" ELSE r.rs]

\* The effect of one step on st = [n: nstmt, c: cursor, k: nconn]; ok: the
\* call returned, otherwise it raised.
Effect(st, s, ok) ==
    CASE s.call = "stmt.close" ->
            LET r  == [st.n[s.h] EXCEPT !.closeCalls = Bump(@)]
                r2 == IF ok THEN NativeStmtClose(r) ELSE r
            IN  [st EXCEPT !.n[s.h] = r2]
      [] s.call = "rs.close" ->
            LET r  == [st.n[s.h] EXCEPT !.rsCloseCalls = Bump(@)]
                r2 == IF ok /\ r.rs = "open" THEN [r EXCEPT !.rs = "closed"] ELSE r
            IN  [st EXCEPT !.n[s.h] = r2]
      [] s.call \in {"createStatement", "prepareStatement"} ->
            IF ok
            THEN [st EXCEPT
                    !.n = Append(@, NewStmt(s.arg)),
                    !.c.stmt = Len(st.n) + 1]
            ELSE st
      [] s.call = "getResultSet" ->
            IF ok THEN [st EXCEPT !.n[s.h].rs = "open"] ELSE st
      [] s.call = "py:rs" -> [st EXCEPT !.c.rs = s.h]
      [] s.call = "py:reset" -> [st EXCEPT !.c.description = None, !.c.rowcount = -1]
      [] s.call = "py:description" -> [st EXCEPT !.c.description = s.arg]
      [] s.call = "py:rowcount" -> [st EXCEPT !.c.rowcount = s.h]
      [] s.call = "next" ->
            \* the cursor of the result set moves to the next row, or from
            \* the last row to the position after it (pos NumRows + 1)
            IF ok /\ st.n[s.h].pos <= NumRows
            THEN [st EXCEPT !.n[s.h].pos = @ + 1]
            ELSE st
      [] s.call = "getConnection" ->
            IF ok THEN [st EXCEPT !.k = [state |-> "open", closeCalls |-> 0]] ELSE st
      [] s.call = "conn.close" ->
            IF ok
            THEN [st EXCEPT !.k.state = "closed", !.k.closeCalls = Bump(@),
                            !.n = [i \in 1..Len(st.n) |-> NativeStmtClose(st.n[i])]]
            ELSE [st EXCEPT !.k.closeCalls = Bump(@)]
      [] OTHER -> st

\* Runs the steps plan[i..] of a handler from st.  Step failAt raises (the
\* environment's choice, 0: none), and so does a step that MustFail.  The
\* result is the state reached and the index of the step that raised (0:
\* every step returned).
RECURSIVE RunFrom(_, _, _, _)
RunFrom(st, plan, i, failAt) ==
    IF i > Len(plan) THEN [st |-> st, failed |-> 0]
    ELSE IF i = failAt \/ MustFail(st, plan[i])
         THEN [st |-> Effect(st, plan[i], FALSE), failed |-> i]
         ELSE RunFrom(Effect(st, plan[i], TRUE), plan, i + 1, failAt)

Run(plan, failAt) == RunFrom([n |-> nstmt, c |-> cur, k |-> nconn], plan, 1, failAt)

\* the native calls among the steps a run executed
Executed(plan, r) ==
    LET upto == IF r.failed = 0 THEN Len(plan) ELSE r.failed
    IN  SelectSeq(SubSeq(plan, 1, upto), IsNative)

\* The native calls the environment makes raise: a close, the creation or
\* the execution of a statement, the advance of a result set, the loading of
\* the driver class, getConnection, and the calls of the Connection methods.
FaultyCalls ==
    {"stmt.close", "rs.close", "conn.close", "createStatement", "prepareStatement",
     "execute", "executeBatch", "next", "JClass", "getConnection", "commit",
     "rollback", "setAutoCommit", "getAutoCommit"}

\* where the environment may make a step of a plan raise (0: nowhere)
FailPoints(plan) ==
    {0} \cup {i \in 1..Len(plan) : plan[i].call \in FaultyCalls}

OptStep(cond, s) == IF cond THEN <<s>> ELSE <<>>

(***************************************************************************)
(* jdbc/connection.py                                                      *)
(* conn: exists (a Connection was constructed), closed (_closed), jdbc     *)
(* (_jdbc_connection is not None)                                          *)
(***************************************************************************)
\* the shapes of driver_args a caller passes
DriverArgShapes == {"none", "dict", "list2", "tuple2", "list1", "str"}

\* the branch of Connection.__init__ taken for a shape of driver_args
ConnectionForm(shape) ==
    CASE shape = "none" -> "url"
      [] shape = "dict" -> "url,props"
      [] shape \in {"list2", "tuple2"} -> "url,user,password"
      [] OTHER -> "ValueError"

\* the second try block of Connection.__init__
ConnectPlan(shape) ==
    <<NativeCall("JClass", 0, "driver"), NativeCall("JClass", 0, "java.sql.DriverManager")>>
    \o (CASE ConnectionForm(shape) = "url" ->
                <<NativeCall("getConnection", 0, "url")>>
          [] ConnectionForm(shape) = "url,props" ->
                <<NativeCall("JClass", 0, "java.util.Properties"),
                  NativeCall("getConnection", 0, "url,props")>>
          [] ConnectionForm(shape) = "url,user,password" ->
                <<NativeCall("getConnection", 0, "url,user,password")>>
          [] OTHER -> <<NC("py:raise")>>)

\* a mutant of ConnectError: one except clause around the whole constructor
ConnectErrorOneHandler(startFailed) == "DatabaseError"

\* the error Connection.__init__ raises: for a failed start_jvm, and for
\* anything raised in the second try block
ConnectError(startFailed) == IF startFailed THEN "InterfaceError" ELSE "DatabaseError"

\* Connection.__init__(jclassname, url, driver_args, jars), run to its end
Construct(jars, shape) ==
    /\ \E outcome \in StartOutcomes :
        LET e    == StartJvmEffect(jars, <<>>, FALSE, outcome)
            plan == ConnectPlan(shape)
        IN  /\ jvm_started' = e.jvm_started
            /\ vm' = e.vm
            /\ vmArgs' = e.vmArgs
            /\ startLog' = e.startLog
            /\ callerArgs' = e.callerArgs
            /\ op' = [name |-> "connect", driver_args |-> shape, jars |-> jars]
            /\ returned' = <<>>
            /\ IF e.result # "ok"
               THEN /\ result' = ConnectError(TRUE)
                    /\ trace' = e.trace
                    /\ UNCHANGED dbVars
               ELSE \E failAt \in FailPoints(plan) :
                      \E r \in {Run(plan, failAt)} :
                          /\ trace' = e.trace \o Executed(plan, r)
                          /\ IF r.failed # 0
                             THEN /\ result' = ConnectError(FALSE)
                                  /\ UNCHANGED dbVars
                             ELSE /\ result' = "ok"
                                  /\ conn' = [exists |-> TRUE, closed |-> FALSE,
                                               jdbc |-> TRUE]
                                  /\ nconn' = r.st.k
                                  /\ UNCHANGED <<cur, nstmt>>

\* Connection(jclassname, url, driver_args, jars)
Connect ==
    /\ ~conn.exists
    /\ \E jars \in ClasspathChoices, shape \in DriverArgShapes : Construct(jars, shape)
    /\ UNCHANGED <<threadVars, fsVars, asyncVars>>

\* a mutant of ConnClosedCheck: the check is missing
ConnClosedCheckMissing(c) == FALSE

\* `if self._closed: raise InterfaceError("Connection is closed")`
ConnClosedCheck(c) == c.closed

\* Connection.close()
ConnClose ==
    /\ conn.exists
    /\ op' = [name |-> "conn.close", again |-> conn.closed]
    /\ result' = "ok"
    /\ returned' = <<>>
    /\ IF conn.closed
       THEN /\ trace' = <<>>
            /\ UNCHANGED dbVars
       ELSE \E failAt \in FailPoints(OptStep(conn.jdbc, NC("conn.close"))) :
              LET plan == OptStep(conn.jdbc, NC("conn.close"))
              IN  \E r \in {Run(plan, failAt)} :
                  /\ trace' = Executed(plan, r)
                  /\ conn' = [conn EXCEPT !.closed = TRUE, !.jdbc = FALSE]
                  /\ nconn' = r.st.k
                  /\ nstmt' = r.st.n
                  /\ UNCHANGED cur
    /\ UNCHANGED <<jvmVars, threadVars, fsVars, asyncVars>>

\* commit(), rollback(), set_auto_commit(v), get_auto_commit(): the closed
\* check, then one native call; what it raises becomes DatabaseError
ConnMethods ==
    [commit |-> "commit", rollback |-> "rollback",
     set_auto_commit |-> "setAutoCommit", get_auto_commit |-> "getAutoCommit"]

\* a mutant of ConnCallPlan: the native call is made twice
ConnCallPlanTwice(m) == <<NC(ConnMethods[m]), NC(ConnMethods[m])>>

\* the native call of a Connection method: self._jdbc_connection.<m>()
ConnCallPlan(m) == <<NC(ConnMethods[m])>>

ConnCall ==
    /\ conn.exists
    /\ \E m \in DOMAIN ConnMethods :
        /\ op' = [name |-> m]
        /\ returned' = <<>>
        /\ IF ConnClosedCheck(conn)
           THEN /\ result' = "InterfaceError"
                /\ trace' = <<>>
           ELSE \E failAt \in {0, 1} :
                  LET plan == ConnCallPlan(m)
                  IN  \E r \in {Run(plan, failAt)} :
                      /\ trace' = Executed(plan, r)
                      /\ result' = IF r.failed # 0 THEN "DatabaseError" ELSE "ok"
    /\ UNCHANGED <<jvmVars, threadVars, dbVars, fsVars, asyncVars>>

\* Connection.__exit__(exc_type, exc_val, exc_tb): commit() or rollback(),
\* then close(); what commit() or rollback() raises leaves __exit__ before
\* close() is called.  returned: the methods of the Connection it called.
ConnExit ==
    /\ conn.exists
    /\ \E raised \in BOOLEAN :
        LET m == IF raised THEN "rollback" ELSE "commit"
        IN  /\ op' = [name |-> "conn.__exit__", exc |-> raised, closed |-> conn.closed]
            /\ IF ConnClosedCheck(conn)
               THEN /\ result' = "InterfaceError"
                    /\ trace' = <<>>
                    /\ returned' = <<m>>
                    /\ UNCHANGED dbVars
               ELSE LET plan == ConnCallPlan(m) \o OptStep(conn.jdbc, NC("conn.close"))
                    IN  \E failAt \in FailPoints(plan) :
                          \E r \in {Run(plan, failAt)} :
                              /\ trace' = Executed(plan, r)
                              /\ IF r.failed # 0 /\ r.failed <= Len(ConnCallPlan(m))
                                 THEN /\ result' = "DatabaseError"
                                      /\ returned' = <<m>>
                                      /\ UNCHANGED dbVars
                                 ELSE /\ result' = "ok"
                                      /\ returned' = <<m, "close">>
                                      /\ conn' = [conn EXCEPT !.closed = TRUE,
                                                              !.jdbc = FALSE]
                                      /\ nconn' = r.st.k
                                      /\ nstmt' = r.st.n
                                      /\ UNCHANGED cur
    /\ UNCHANGED <<jvmVars, threadVars, fsVars, asyncVars>>

\* Cursor.__init__
NewCursor ==
    [exists |-> TRUE, closed |-> FALSE, stmt |-> 0, rs |-> 0, description |-> None,
     rowcount |-> -1, arraysize |-> 1, last |-> None]

\* Connection.cursor().  The model follows the first cursor of the connection.
ConnCursor ==
    /\ conn.exists
    /\ op' = [name |-> "cursor"]
    /\ returned' = <<>>
    /\ trace' = <<>>
    /\ IF ConnClosedCheck(conn)
       THEN /\ result' = "InterfaceError"
            /\ UNCHANGED cur
       ELSE /\ ~cur.exists
            /\ result' = "ok"
            /\ cur' = NewCursor
    /\ UNCHANGED <<jvmVars, threadVars, conn, nconn, nstmt, fsVars, asyncVars>>

(***************************************************************************)
(* jdbc/cursor.py                                                          *)
(* cur: exists (cursor() returned it), closed (_closed), stmt and rs (the  *)
(* native statement behind _jdbc_statement / _jdbc_resultset, 0: None),    *)
(* description (None, or the query whose columns it describes), rowcount,  *)
(* arraysize; last is history: the operation of the last execute() call.   *)
(***************************************************************************)
\* the update counts getUpdateCount returns
UpdateCounts == {0, 2}
\* the per-row counts executeBatch returns; -2 is Statement.SUCCESS_NO_INFO
BatchCounts == {1, -2}
\* the parameter sets of an executemany
BatchChoices == {<< <<"v">> >>, << <<"v">>, <<None>> >>}

\* a mutant of CursorClosedCheck: the check is missing
CursorClosedCheckMissing(c) == FALSE

\* `if self._closed: raise InterfaceError("Cursor is closed")`
CursorClosedCheck(c) == c.closed

\* a mutant of BindSteps: None is bound like any other value
BindStepsAllObjects(h, parameters) ==
    [i \in 1..Len(parameters) |-> NativeBind("setObject", h, i, parameters[i])]

\* _bind_parameters: setNull(i, 0) for None, setObject(i, param) otherwise
BindSteps(h, parameters) ==
    [i \in 1..Len(parameters) |->
        IF parameters[i] = None THEN NativeBind("setNull", h, i, "0")
        ELSE NativeBind("setObject", h, i, parameters[i])]

\* the try block of Cursor.execute; new is the statement it will create
ExecutePlan(c, new, sql, parameters, count, descFails) ==
    OptStep(c.stmt # 0, NativeCall("stmt.close", c.stmt, ""))
    \o OptStep(c.rs # 0, NativeCall("rs.close", c.rs, ""))
    \o <<NC("py:reset")>>
    \o (IF Truthy(parameters)
        THEN <<NativeCall("prepareStatement", new, sql)>>
             \o BindSteps(new, parameters)
             \o <<NativeCall("execute", new, "")>>
        ELSE <<NativeCall("createStatement", new, sql),
               NativeCall("execute", new, sql)>>)
    \o (IF HasResultSet(sql)
        THEN <<NativeCall("getResultSet", new, ""),
               NativeCall("py:rs", new, ""),
               NativeCall("getMetaData", new, ""),
               NativeCall("py:description", 0, IF descFails THEN None ELSE sql)>>
        ELSE <<NativeCall("getUpdateCount", new, ""),
               NativeCall("py:rowcount", count, "")>>)

\* Cursor.execute(operation, parameters), for the operations, parameters,
\* update counts and _build_description failures given
ExecuteWith(operations, params, counts, descs) ==
    /\ cur.exists
    /\ \E sql \in operations, parameters \in params :
      LET call == [name |-> "execute", sql |-> sql, parameters |-> parameters,
                   heldStmt |-> cur.stmt, heldRs |-> cur.rs,
                   heldOpen |-> cur.rs # 0 /\ nstmt[cur.rs].rs = "open",
                   count |-> -1, descFails |-> FALSE]
      IN
        /\ returned' = <<>>
        /\ IF CursorClosedCheck(cur)
           THEN /\ op' = call
                /\ result' = "InterfaceError"
                /\ trace' = <<>>
                /\ UNCHANGED dbVars
           ELSE /\ Len(nstmt) < MaxStmts
                /\ \E count \in IF HasResultSet(sql) THEN {-1} ELSE counts,
                      descFails \in IF HasResultSet(sql) THEN descs ELSE {FALSE} :
                    LET plan == ExecutePlan(cur, Len(nstmt) + 1, sql, parameters,
                                            count, descFails)
                    IN  \E failAt \in FailPoints(plan) :
                          \E r \in {Run(plan, failAt)} :
                              \* count: what getUpdateCount() returns;
                              \* descFails: a metadata call raises
                              /\ op' = [call EXCEPT !.count = count,
                                                    !.descFails = descFails]
                              /\ trace' = Executed(plan, r)
                              /\ result' = IF r.failed # 0 THEN "ProgrammingError"
                                           ELSE "ok"
                              /\ cur' = [r.st.c EXCEPT !.last = sql]
                              /\ nstmt' = r.st.n
                              /\ UNCHANGED <<conn, nconn>>
    /\ UNCHANGED <<jvmVars, threadVars, fsVars, asyncVars>>

RECURSIVE SumAll(_)
\* a mutant of SumNonNegative: sum(results), the sentinels included
SumAll(results) ==
    IF results = <<>> THEN 0 ELSE Head(results) + SumAll(Tail(results))

RECURSIVE SumNonNegative(_)
\* sum(r for r in results if r >= 0)
SumNonNegative(results) ==
    IF results = <<>> THEN 0
    ELSE (IF Head(results) >= 0 THEN Head(results) ELSE 0)
         + SumNonNegative(Tail(results))

RECURSIVE BatchSteps(_, _)
\* for parameters in seq_of_parameters: bind, addBatch
BatchSteps(h, seq_of_parameters) ==
    IF seq_of_parameters = <<>> THEN <<>>
    ELSE BindSteps(h, Head(seq_of_parameters))
         \o <<NativeCall("addBatch", h, "")>>
         \o BatchSteps(h, Tail(seq_of_parameters))

\* the try block of Cursor.executemany
ExecuteManyPlan(new, sql, seq_of_parameters, results) ==
    <<NativeCall("prepareStatement", new, sql)>>
    \o BatchSteps(new, seq_of_parameters)
    \o <<NativeCall("executeBatch", new, ""),
         NativeCall("py:rowcount", SumNonNegative(results), "")>>

\* Cursor.executemany(operation, seq_of_parameters), for the operations,
\* parameter sets and per-row counts given
ExecuteManyWith(operations, batches, rowCounts) ==
    /\ cur.exists
    /\ \E sql \in operations, seq_of_parameters \in batches :
        /\ returned' = <<>>
        /\ IF CursorClosedCheck(cur)
           THEN /\ op' = [name |-> "executemany", sql |-> sql,
                          seq_of_parameters |-> seq_of_parameters, results |-> <<>>]
                /\ result' = "InterfaceError"
                /\ trace' = <<>>
                /\ UNCHANGED dbVars
           ELSE /\ Len(nstmt) < MaxStmts
                /\ \E results \in [1..Len(seq_of_parameters) -> rowCounts] :
                    LET plan == ExecuteManyPlan(Len(nstmt) + 1, sql,
                                                seq_of_parameters, results)
                    IN  \E failAt \in FailPoints(plan) :
                          \E r \in {Run(plan, failAt)} :
                              /\ op' = [name |-> "executemany", sql |-> sql,
                                        seq_of_parameters |-> seq_of_parameters,
                                        results |-> results]
                              /\ trace' = Executed(plan, r)
                              /\ result' = IF r.failed # 0 THEN "ProgrammingError"
                                           ELSE "ok"
                              /\ cur' = r.st.c
                              /\ nstmt' = r.st.n
                              /\ UNCHANGED <<conn, nconn>>
    /\ UNCHANGED <<jvmVars, threadVars, fsVars, asyncVars>>

\* Cursor.close()
CursorClose ==
    /\ cur.exists
    /\ op' = [name |-> "cursor.close", again |-> cur.closed]
    /\ result' = "ok"
    /\ returned' = <<>>
    /\ IF cur.closed
       THEN /\ trace' = <<>>
            /\ UNCHANGED dbVars
       ELSE LET plan == OptStep(cur.rs # 0, NativeCall("rs.close", cur.rs, ""))
                        \o OptStep(cur.stmt # 0, NativeCall("stmt.close", cur.stmt, ""))
            IN  \E failAt \in FailPoints(plan) :
                  \E r \in {Run(plan, failAt)} :
                      /\ trace' = Executed(plan, r)
                      /\ cur' = [r.st.c EXCEPT !.rs = 0, !.stmt = 0, !.closed = TRUE]
                      /\ nstmt' = r.st.n
                      /\ UNCHANGED <<conn, nconn>>
    /\ UNCHANGED <<jvmVars, threadVars, fsVars, asyncVars>>

\* a mutant of NoResultSet: the check is missing
NoResultSetMissing(c) == FALSE

\* `if self._jdbc_resultset is None: raise InterfaceError(...)`
NoResultSet(c) == c.rs = 0

\* rows of result set h that next() has not reached
Remaining(h) ==
    IF nstmt[h].rs = "open" /\ nstmt[h].pos < NumRows THEN NumRows - nstmt[h].pos
    ELSE 0

\* the result set is after its last row: a next() has returned false
AfterLast(h) == nstmt[h].pos > NumRows

\* A forward-only result set that is after its last row: whether a further
\* next() returns false or raises SQLException is left to the driver by
\* java.sql.ResultSet.  These are the steps of a fetch where that happens.
AfterLastFailPoints(h, plan) ==
    {0} \cup {i \in 1..Len(plan) : i = 1 /\ plan[i].call = "next" /\ AfterLast(h)}

\* _fetch_row, on row i of result set h
FetchRow(c, h, i) ==
    IF c.description = None THEN EmptyTuple ELSE Row(nstmt[h].sql, i)

RECURSIVE FetchSteps(_, _, _, _)
\* calls invocations of next(), the first rows of them returning true;
\* _fetch_row reads the columns of each row if there is a description
FetchSteps(c, h, calls, rows) ==
    IF calls = 0 THEN <<>>
    ELSE <<NativeCall("next", h, "")>>
         \o OptStep(rows > 0 /\ c.description # None, NativeCall("getObject", h, ""))
         \o FetchSteps(c, h, calls - 1, IF rows > 0 THEN rows - 1 ELSE 0)

\* the rows a fetch delivers when it asks for at most want rows (-1: all)
Delivered(h, want) ==
    IF want = -1 \/ Remaining(h) < want THEN Remaining(h) ELSE want

\* the next() calls of that fetch: one per row delivered, and one that
\* returns false unless the fetch stops at its size
NextCalls(h, want) ==
    IF want = -1 \/ Remaining(h) < want THEN Remaining(h) + 1 ELSE want

\* fetchone (want 1; None at exhaustion), fetchmany(size), fetchall (want -1).
\* anyFault: every native call may raise; otherwise only the next() that
\* the driver may refuse after the last row.
FetchUnder(name, want, anyFault) ==
    /\ op' = [name |-> name, want |-> want, rs |-> cur.rs,
              remaining |-> IF NoResultSet(cur) THEN 0 ELSE Remaining(cur.rs)]
    /\ IF NoResultSet(cur)
       THEN /\ result' = "InterfaceError"
            /\ trace' = <<>>
            /\ returned' = <<>>
            /\ UNCHANGED dbVars
       ELSE LET h    == cur.rs
                plan == FetchSteps(cur, h, NextCalls(h, want), Delivered(h, want))
            IN  \E failAt \in IF anyFault THEN FailPoints(plan)
                              ELSE AfterLastFailPoints(h, plan) :
                  \E r \in {Run(plan, failAt)} :
                      /\ trace' = Executed(plan, r)
                      /\ result' = IF r.failed # 0 THEN "DataError" ELSE "ok"
                      /\ returned' =
                            IF r.failed # 0 THEN <<>>
                            ELSE [j \in 1..Delivered(h, want) |->
                                    FetchRow(cur, h, nstmt[h].pos + j)]
                      /\ nstmt' = r.st.n
                      /\ UNCHANGED <<conn, nconn, cur>>
    /\ UNCHANGED <<jvmVars, threadVars, fsVars, asyncVars>>

Fetch(name, want) == FetchUnder(name, want, TRUE)

FetchOne == cur.exists /\ Fetch("fetchone", 1)

\* fetchmany(size); size None (here 0) is arraysize
FetchManyWith(sizes) ==
    /\ cur.exists
    /\ \E size \in sizes :
        Fetch("fetchmany", IF size = 0 THEN cur.arraysize ELSE size)

FetchAll == cur.exists /\ Fetch("fetchall", -1)

\* the calls of Spec: every operation, one parameter list with a None, one
\* batch of two parameter sets, fetchmany(MaxFetch)
Execute == ExecuteWith(Operations, {<<>>, <<None, "v">>}, {2}, {FALSE})
ExecuteMany == ExecuteManyWith(Operations, {<< <<"v">>, <<None>> >>}, {1})
FetchMany == FetchManyWith({MaxFetch})

\* ResultSetMetaData of the queries: getColumnName(i) and getColumnType(i)
\* (java.sql.Types: 4 INTEGER, 12 VARCHAR, 93 TIMESTAMP)
Columns(sql) ==
    IF sql = "A" THEN <<[name |-> "id", type |-> 4], [name |-> "name", type |-> 12]>>
    ELSE IF sql = "B" THEN <<[name |-> "at", type |-> 93]>>
    ELSE <<>>

\* the tuple _build_description makes of the metadata of a query; the
\* cursor's description field holds the query it was built for
DescriptionTuple(sql) ==
    [i \in 1..Len(Columns(sql)) |->
        <<Columns(sql)[i].name, Columns(sql)[i].type, None, None, None, None, None>>]

\* execute of every operation, with and without parameters, the update
\* counts 0 and 2, and metadata calls that return or raise
ExecuteAny == ExecuteWith(Operations, {<<>>, <<"v">>}, UpdateCounts, BOOLEAN)

\* batches of no, one, two and three parameter sets on one statement, each
\* row reporting one affected row or SUCCESS_NO_INFO
BatchSets ==
    {<<>>, << <<"v">> >>, << <<"v">>, <<None>> >>,
     << <<"v">>, <<None, "v">>, <<"w">> >>}

BatchExecute == ExecuteManyWith({"U"}, BatchSets, BatchCounts)

\* a cursor that executes one query and fetches from it, with a driver
\* whose calls return -- except that next() after the last row may raise
FetchedQuery ==
    /\ cur.exists /\ cur.stmt = 0
    /\ ExecuteWith({"A", "B"}, {<<>>, <<"v">>}, {2}, BOOLEAN)

FetchOneRow == cur.exists /\ FetchUnder("fetchone", 1, FALSE)

\* fetchmany() (arraysize), fetchmany(MaxFetch)
FetchSomeRows ==
    /\ cur.exists
    /\ \E size \in {0, MaxFetch} :
        FetchUnder("fetchmany", IF size = 0 THEN cur.arraysize ELSE size, FALSE)

FetchAllRows == cur.exists /\ FetchUnder("fetchall", -1, FALSE)

(***************************************************************************)
(* jdbc/driver_manager.py                                                  *)
(*                                                                         *)
(* cacheFile[k]: the file at cache_dir / driver.filename of database kind  *)
(* k; tmpFile[k]: the file at target_path.with_suffix(".tmp").  A file is  *)
(* [state, gen]: state "absent", or what it holds -- "valid" (a complete   *)
(* JAR), "empty" (0 bytes), "corrupt" (bytes that are no archive) or       *)
(* "partial" (the head of a body); gen is the request that wrote it.       *)
(* requests counts the urlopen calls.                                      *)
(***************************************************************************)
\* urlopen is called at most this often in one behaviour
MaxRequests == 3

\* the keys of RECOMMENDED_JDBC_DRIVERS the model follows
Kinds == {"postgresql", "mysql"}
AllKinds == <<"postgresql", "mysql">>

File(state, gen) == [state |-> state, gen |-> gen]
Absent == File("absent", 0)

\* cache_dir / driver.filename
CachePath(k) == "cache/" \o k \o ".jar"

\* What a request for the artifact does: urlopen raises (no network, a bad
\* HTTP status); the body arrives whole and is a JAR, is empty, or is not an
\* archive; or the stream breaks while the body is copied.
Responses == {"error", "valid", "empty", "corrupt", "truncated"}

\* Path.exists()
Exists(f) == f.state # "absent"

\* verify_driver(path) for a path of the cache: it exists, is a file named
\* *.jar, and is not empty
VerifyDriver(f) == Exists(f) /\ f.state # "empty"

\* a mutant of CacheHit: force is ignored
CacheHitIgnoringForce(f, force) == Exists(f)

\* a mutant of CacheHit: the cache is not consulted
CacheHitNever(f, force) == FALSE

\* download_driver: `if target_path.exists() and not force: return target_path`
CacheHit(f, force) == Exists(f) /\ ~force

\* a mutant of DownloadDriverEffect: the body is written at the target path
DownloadDriverEffectInPlace(fs, k, force, response) ==
    IF CacheHit(fs.cache[k], force)
    THEN [fs |-> fs, result |-> "ok", asked |-> FALSE]
    ELSE LET gen == fs.requests + 1
             f1  == [fs EXCEPT !.requests = gen]
         IN  CASE response = "error" ->
                    [fs |-> f1, result |-> "RuntimeError", asked |-> TRUE]
               [] response = "truncated" ->
                    [fs |-> [f1 EXCEPT !.cache[k] = File("partial", gen)],
                     result |-> "RuntimeError", asked |-> TRUE]
               [] OTHER ->
                    [fs |-> [f1 EXCEPT !.cache[k] = File(response, gen)],
                     result |-> "ok", asked |-> TRUE]

\* download_driver(driver, cache_dir, force) on fs = [cache, tmp, requests],
\* with the response the request gets: the files and the count it leaves,
\* its result, and whether it asked the network.
DownloadDriverEffect(fs, k, force, response) ==
    IF CacheHit(fs.cache[k], force)
    THEN [fs |-> fs, result |-> "ok", asked |-> FALSE]
    ELSE LET gen == fs.requests + 1
             f1  == [fs EXCEPT !.requests = gen]
         IN  CASE response = "error" ->
                    [fs |-> f1, result |-> "RuntimeError", asked |-> TRUE]
               [] response = "truncated" ->
                    [fs |-> [f1 EXCEPT !.tmp[k] = File("partial", gen)],
                     result |-> "RuntimeError", asked |-> TRUE]
               [] OTHER ->
                    \* the body is copied to the temporary file, which
                    \* replaces the target
                    [fs |-> [f1 EXCEPT !.tmp[k] = Absent,
                                       !.cache[k] = File(response, gen)],
                     result |-> "ok", asked |-> TRUE]

\* get_driver_path(database, auto_download=auto_download)
GetDriverPathEffect(fs, database, auto_download, response) ==
    IF database \notin Kinds
    THEN [fs |-> fs, result |-> "ValueError", asked |-> FALSE]
    ELSE IF Exists(fs.cache[database])
    THEN [fs |-> fs, result |-> "ok", asked |-> FALSE]
    ELSE IF auto_download
    THEN DownloadDriverEffect(fs, database, FALSE, response)
    ELSE [fs |-> fs, result |-> "RuntimeError", asked |-> FALSE]

\* a mutant of GetAllDriverPathsEffect: the first failure ends the loop
RECURSIVE GetAllDriverPathsStopping(_, _, _, _)
GetAllDriverPathsStopping(fs, databases, auto_download, responses) ==
    IF databases = <<>> THEN [fs |-> fs, paths |-> <<>>, asked |-> 0]
    ELSE LET e == GetDriverPathEffect(fs, Head(databases), auto_download,
                                      Head(responses))
         IN  IF e.result # "ok"
             THEN [fs |-> e.fs, paths |-> <<>>, asked |-> IF e.asked THEN 1 ELSE 0]
             ELSE LET rest == GetAllDriverPathsStopping(e.fs, Tail(databases),
                                                        auto_download, Tail(responses))
                  IN  [fs |-> rest.fs,
                       paths |-> <<CachePath(Head(databases))>> \o rest.paths,
                       asked |-> rest.asked + (IF e.asked THEN 1 ELSE 0)]

RECURSIVE GetAllDriverPathsEffect(_, _, _, _)
\* get_all_driver_paths(databases, auto_download): get_driver_path for each
\* database in turn; one that raises is logged and left out.  responses[i]
\* answers the request made for databases[i].
GetAllDriverPathsEffect(fs, databases, auto_download, responses) ==
    IF databases = <<>> THEN [fs |-> fs, paths |-> <<>>, asked |-> 0]
    ELSE LET e    == GetDriverPathEffect(fs, Head(databases), auto_download,
                                         Head(responses))
             rest == GetAllDriverPathsEffect(e.fs, Tail(databases), auto_download,
                                             Tail(responses))
         IN  [fs |-> rest.fs,
              paths |-> (IF e.result = "ok" THEN <<CachePath(Head(databases))>>
                         ELSE <<>>) \o rest.paths,
              asked |-> rest.asked + (IF e.asked THEN 1 ELSE 0)]

\* a mutant of Unique: nothing is removed
KeepAll(classpath, seen) == classpath

RECURSIVE Unique(_, _)
\* the loop that removes duplicates while preserving order
Unique(classpath, seen) ==
    IF classpath = <<>> THEN <<>>
    ELSE IF Head(classpath) \in seen THEN Unique(Tail(classpath), seen)
    ELSE <<Head(classpath)>> \o Unique(Tail(classpath), seen \cup {Head(classpath)})

\* get_classpath_with_drivers(databases, auto_download, manual_classpath)
GetClasspathWithDriversEffect(fs, databases, auto_download, manual_classpath, responses) ==
    LET auto == IF auto_download
                THEN GetAllDriverPathsEffect(fs, databases, TRUE, responses)
                ELSE [fs |-> fs, paths |-> <<>>, asked |-> 0]
    IN  [fs |-> auto.fs, paths |-> Unique(manual_classpath \o auto.paths, {}),
         asked |-> auto.asked, auto |-> auto.paths]

CurrentFs == [cache |-> cacheFile, tmp |-> tmpFile, requests |-> requests]

SetFs(fs) ==
    /\ cacheFile' = fs.cache
    /\ tmpFile' = fs.tmp
    /\ requests' = fs.requests

UrlopenCalls(n) == [i \in 1..n |-> NC("urlopen")]

\* download_driver(driver, force=force)
DownloadDriver ==
    \E k \in Kinds, force \in BOOLEAN, response \in Responses :
    \E e \in {DownloadDriverEffect(CurrentFs, k, force, response)} :
        /\ e.fs.requests <= MaxRequests
        /\ SetFs(e.fs)
        /\ op' = [name |-> "download_driver", database |-> k, force |-> force,
                  manual |-> <<>>]
        /\ result' = e.result
        /\ returned' = IF e.result = "ok" THEN <<CachePath(k)>> ELSE <<>>
        /\ trace' = UrlopenCalls(IF e.asked THEN 1 ELSE 0)
        /\ UNCHANGED <<jvmVars, threadVars, dbVars, asyncVars>>

\* get_driver_path(database, auto_download=auto_download)
GetDriverPath ==
    \E database \in Kinds \cup {"nosuchdb"}, auto_download \in BOOLEAN,
       response \in Responses :
    \E e \in {GetDriverPathEffect(CurrentFs, database, auto_download, response)} :
        /\ e.fs.requests <= MaxRequests
        /\ SetFs(e.fs)
        /\ op' = [name |-> "get_driver_path", database |-> database,
                  force |-> FALSE, manual |-> <<>>, auto_download |-> auto_download]
        /\ result' = e.result
        /\ returned' = IF e.result = "ok" THEN <<CachePath(database)>> ELSE <<>>
        /\ trace' = UrlopenCalls(IF e.asked THEN 1 ELSE 0)
        /\ UNCHANGED <<jvmVars, threadVars, dbVars, asyncVars>>

\* list_cached_drivers(): the *.jar files of the cache that verify_driver accepts
ListCachedDrivers(cache) == {k \in Kinds : VerifyDriver(cache[k])}

\* a mutant of Unlinked: a file that cannot be deleted is counted and forgotten
UnlinkedAnyway(f, fails) == Absent

\* path.unlink() of clear_driver_cache on one file: the file is gone, unless
\* unlink raises (the file is in use, the directory is read-only)
Unlinked(f, fails) == IF fails THEN f ELSE Absent

\* clear_driver_cache(): unlink for every *.jar of the cache directory,
\* counting those that were deleted; unlink raises for the kinds in failing
ClearDriverCache ==
    \E failing \in SUBSET {k \in Kinds : Exists(cacheFile[k])} :
        /\ op' = [name |-> "clear_driver_cache", before |-> cacheFile,
                  tmpBefore |-> tmpFile, failing |-> failing]
        /\ cacheFile' = [k \in Kinds |-> Unlinked(cacheFile[k], k \in failing)]
        /\ result' = "ok"
        /\ returned' = <<Cardinality({k \in Kinds : Exists(cacheFile[k])} \ failing)>>
        /\ trace' = <<>>
        /\ UNCHANGED <<tmpFile, requests, jvmVars, threadVars, dbVars, asyncVars>>

\* the database lists get_all_driver_paths is asked for: an unknown kind
\* first, a kind twice
PathDatabases == {AllKinds, <<"nosuchdb", "postgresql">>, <<"mysql", "mysql">>,
                  <<"mysql", "nosuchdb", "postgresql">>}
PathResponses == {"error", "valid"}

\* get_all_driver_paths(databases, auto_download)
GetAllDriverPaths ==
    \E databases \in PathDatabases, auto_download \in BOOLEAN :
    \E responses \in [1..Len(databases) -> PathResponses] :
    \E e \in {GetAllDriverPathsEffect(CurrentFs, databases, auto_download, responses)} :
        /\ e.fs.requests <= MaxRequests
        /\ SetFs(e.fs)
        /\ op' = [name |-> "get_all_driver_paths", databases |-> databases,
                  auto_download |-> auto_download, responses |-> responses,
                  cached |-> {k \in Kinds : Exists(cacheFile[k])}]
        /\ result' = "ok"
        /\ returned' = e.paths
        /\ trace' = UrlopenCalls(e.asked)
        /\ UNCHANGED <<jvmVars, threadVars, dbVars, asyncVars>>

\* the database lists and the manual classpaths a caller passes
DatabaseChoices == {AllKinds, <<"mysql">>, <<"nosuchdb", "postgresql">>}
ManualChoices == {<<>>, <<"manual.jar">>, <<"manual.jar", "cache/mysql.jar">>}

\* get_classpath_with_drivers(databases, auto_download, manual_classpath)
GetClasspathWithDriversWith(databaseLists, manuals, answers) ==
    \E databases \in databaseLists, auto_download \in BOOLEAN,
       manual_classpath \in manuals :
    \E responses \in [1..Len(databases) -> answers] :
    \E e \in {GetClasspathWithDriversEffect(CurrentFs, databases, auto_download,
                                           manual_classpath, responses)} :
        /\ e.fs.requests <= MaxRequests
        /\ SetFs(e.fs)
        /\ op' = [name |-> "get_classpath_with_drivers", database |-> "",
                  force |-> FALSE, manual |-> manual_classpath,
                  databases |-> databases, auto_download |-> auto_download,
                  auto_paths |-> e.auto]
        /\ result' = "ok"
        /\ returned' = e.paths
        /\ trace' = UrlopenCalls(e.asked)
        /\ UNCHANGED <<jvmVars, threadVars, dbVars, asyncVars>>

\* start_jvm(classpath=None, auto_download=auto_download, databases=databases):
\* after the early returns, get_classpath() reads the manual entries from the
\* environment and calls get_classpath_with_drivers; the VM is started with
\* what that returns.
StartJvmResolvingWith(databaseLists, manuals, answers) ==
    \E databases \in databaseLists, auto_download \in BOOLEAN,
       manual_classpath \in manuals, outcome \in StartOutcomes :
    \E responses \in [1..Len(databases) -> answers] :
    \E e \in {IF StartSkipped(jvm_started, vm)
              THEN [fs |-> CurrentFs, paths |-> <<>>, asked |-> 0]
              ELSE GetClasspathWithDriversEffect(CurrentFs, databases, auto_download,
                                                 manual_classpath, responses)} :
    \E j \in {StartJvmEffect(e.paths, <<>>, FALSE, outcome)} :
        /\ e.fs.requests <= MaxRequests
        /\ SetFs(e.fs)
        /\ jvm_started' = j.jvm_started
        /\ vm' = j.vm
        /\ vmArgs' = j.vmArgs
        /\ startLog' = j.startLog
        /\ callerArgs' = j.callerArgs
        /\ op' = [name |-> "start_jvm", database |-> "",
                  force |-> FALSE, manual |-> manual_classpath,
                  databases |-> databases, auto_download |-> auto_download]
        /\ result' = j.result
        /\ returned' = e.paths
        /\ trace' = UrlopenCalls(e.asked) \o j.trace
        /\ UNCHANGED <<threadVars, dbVars, asyncVars>>

GetClasspathWithDrivers ==
    GetClasspathWithDriversWith(DatabaseChoices, ManualChoices, Responses)

\* the calls that build a classpath for two drivers, with requests that
\* fail, that bring the JAR, or that bring something else
ResolveDatabases == {AllKinds, <<"mysql">>}
ResolveManuals == {<<>>, <<"manual.jar">>}
ResolveResponses == {"error", "valid", "corrupt"}

ResolveClasspath ==
    GetClasspathWithDriversWith(ResolveDatabases, ResolveManuals, ResolveResponses)

StartJvmResolving ==
    StartJvmResolvingWith(ResolveDatabases, ResolveManuals, ResolveResponses)

\* databases and manual entries with repetitions, and manual entries that
\* are cache paths
MergeDatabases == {AllKinds, <<"mysql", "postgresql">>, <<"mysql", "mysql">>}
MergeManuals ==
    {<<>>, <<"manual.jar", "manual.jar">>, <<"cache/mysql.jar", "manual.jar">>,
     <<"manual.jar", "cache/postgresql.jar", "other.jar">>}
MergeResponses == {"error", "valid"}

MergeClasspath ==
    GetClasspathWithDriversWith(MergeDatabases, MergeManuals, MergeResponses)

(***************************************************************************)
(* download_driver called by several threads or processes for the same    *)
(* driver.  Each statement that touches the cache directory is a step of   *)
(* its own.  targ[t] is the worker's frame: force, the response its        *)
(* request got, how many writes of the body it has made, and where the     *)
(* file its open descriptor refers to is now: "none" (no descriptor),      *)
(* "tmp" (at the temporary path), "cache" (renamed to the target path) or  *)
(* "unlinked" (replaced by a later rename).                                *)
(***************************************************************************)
\* the driver all workers resolve
SameDriver == "postgresql"

\* shutil.copyfileobj copies a body in writes of 64 KiB; the model follows a
\* body of two writes.  The bytes of a file after write i of a body went to
\* the offset of the writer (each descriptor has its own offset): "empty"
\* holds none, "partial" the first write, "hole" the second write behind a
\* gap, "valid" both.
WriteChunk(state, i) ==
    CASE state = "empty" /\ i = 1 -> "partial"
      [] state = "empty" /\ i = 2 -> "hole"
      [] state = "partial" /\ i = 2 -> "valid"
      [] state = "hole" /\ i = 1 -> "valid"
      [] OTHER -> state

\* the last write of a body
LastWrite == 2

\* what the requests of the workers get: urlopen raises, the body arrives,
\* or the stream breaks after the first write
WorkerResponses == {"error", "valid", "truncated"}

Frame(force, response, written, at) ==
    [force |-> force, response |-> response, written |-> written, at |-> at]

Finish(t, res) ==
    /\ pc' = [pc EXCEPT ![t] = "done"]
    /\ tres' = [tres EXCEPT ![t] = res]

\* temp_path = target_path.with_suffix(".tmp"): two attempts for the same
\* driver use the same temporary path
TempPathShared(t, u) == TRUE

\* a worker enters download_driver(driver, force=force)
D_Call(t) ==
    /\ pc[t] = "idle"
    /\ \E force \in BOOLEAN :
         targ' = [targ EXCEPT ![t] = Frame(force, "none", 0, "none")]
    /\ pc' = [pc EXCEPT ![t] = "dl_exists"]
    /\ UNCHANGED <<jvmVars, tres, apiVars, dbVars, fsVars, asyncVars>>

\* if target_path.exists() and not force: return target_path
D_CheckExists(t) ==
    /\ pc[t] = "dl_exists"
    /\ IF CacheHit(cacheFile[SameDriver], targ[t].force)
       THEN Finish(t, "ok")
       ELSE pc' = [pc EXCEPT ![t] = "dl_urlopen"] /\ UNCHANGED tres
    /\ UNCHANGED <<jvmVars, targ, apiVars, dbVars, fsVars, asyncVars>>

\* with urllib.request.urlopen(driver.maven_url) as response
D_Urlopen(t) ==
    /\ pc[t] = "dl_urlopen"
    /\ requests < MaxRequests
    /\ requests' = requests + 1
    /\ \E response \in WorkerResponses :
        /\ targ' = [targ EXCEPT ![t].response = response]
        /\ IF response = "error"
           THEN Finish(t, "RuntimeError")
           ELSE pc' = [pc EXCEPT ![t] = "dl_open"] /\ UNCHANGED tres
    /\ UNCHANGED <<jvmVars, apiVars, dbVars, cacheFile, tmpFile, asyncVars>>

\* with open(temp_path, "wb") as f: the file at the temporary path is
\* created, or truncated if it is there
D_Open(t) ==
    /\ pc[t] = "dl_open"
    /\ tmpFile' = [tmpFile EXCEPT ![SameDriver] = File("empty", requests)]
    /\ targ' = [targ EXCEPT ![t].at = "tmp"]
    /\ pc' = [pc EXCEPT ![t] = "dl_write"]
    /\ UNCHANGED <<jvmVars, tres, apiVars, dbVars, cacheFile, requests, asyncVars>>

\* the file a worker's descriptor refers to, after one more write to it
Written(f, t) == [f EXCEPT !.state = WriteChunk(f.state, targ[t].written + 1)]

\* shutil.copyfileobj(response, f): one write; the exception of a broken
\* stream leaves download_driver through the except clause
D_Write(t) ==
    /\ pc[t] = "dl_write"
    /\ tmpFile' = IF targ[t].at = "tmp"
                  THEN [tmpFile EXCEPT ![SameDriver] = Written(@, t)] ELSE tmpFile
    /\ cacheFile' = IF targ[t].at = "cache"
                    THEN [cacheFile EXCEPT ![SameDriver] = Written(@, t)] ELSE cacheFile
    /\ IF targ[t].response = "truncated"
       THEN /\ targ' = [targ EXCEPT ![t].written = @ + 1, ![t].at = "none"]
            /\ Finish(t, "RuntimeError")
       ELSE IF targ[t].written + 1 = LastWrite
       THEN /\ targ' = [targ EXCEPT ![t].written = @ + 1, ![t].at = "none"]
            /\ pc' = [pc EXCEPT ![t] = "dl_replace"]
            /\ UNCHANGED tres
       ELSE /\ targ' = [targ EXCEPT ![t].written = @ + 1]
            /\ UNCHANGED <<pc, tres>>
    /\ UNCHANGED <<jvmVars, apiVars, dbVars, requests, asyncVars>>

\* where the descriptor of worker u refers to after worker t renamed the
\* file at the temporary path to the target path
AfterReplace(t, u) ==
    IF targ[u].at = "tmp" /\ TempPathShared(t, u) THEN "cache"
    ELSE IF targ[u].at = "cache" THEN "unlinked"
    ELSE targ[u].at

\* temp_path.replace(target_path); return target_path
D_Replace(t) ==
    /\ pc[t] = "dl_replace"
    /\ IF Exists(tmpFile[SameDriver])
       THEN /\ cacheFile' = [cacheFile EXCEPT ![SameDriver] = tmpFile[SameDriver]]
            /\ tmpFile' = [tmpFile EXCEPT ![SameDriver] = Absent]
            /\ targ' = [u \in Threads |->
                            IF pc[u] = "dl_write"
                            THEN [targ[u] EXCEPT !.at = AfterReplace(t, u)]
                            ELSE targ[u]]
            /\ Finish(t, "ok")
       ELSE \* FileNotFoundError: another attempt renamed the file away
            /\ Finish(t, "RuntimeError")
            /\ UNCHANGED <<cacheFile, tmpFile, targ>>
    /\ UNCHANGED <<jvmVars, apiVars, dbVars, requests, asyncVars>>

(***************************************************************************)
(* jdbc/async_cursor.py and jdbc/async_connection.py                       *)
(*                                                                         *)
(* awrap is the wrapper the tasks share: exists, closed (_closed) and kind *)
(* ("AsyncCursor" or "AsyncConnection").  A task awaits one method of it:  *)
(* the method tests _closed on the event loop and hands the blocking call  *)
(* of the wrapped object to asyncio.to_thread, which runs it on a thread   *)
(* of the loop's default executor; the task resumes when the call has      *)
(* returned.  pc[t] is "idle", "queued" (handed to the executor),          *)
(* "running" (a worker thread is inside the blocking call) or "done";      *)
(* targ[t] holds the method and the number of calls handed over before.    *)
(* The executor has more threads than the model has tasks.                 *)
(***************************************************************************)
AsyncMethods(kind) ==
    IF kind = "AsyncCursor"
    THEN {"execute", "executemany", "fetchone", "fetchmany", "fetchall", "close"}
    ELSE {"close", "commit", "rollback", "cursor", "set_auto_commit", "get_auto_commit"}

\* tasks whose blocking call a worker thread is executing
Running == {t \in Threads : pc[t] = "running"}

\* calls handed to the executor so far
Issued == Cardinality({t \in Threads : pc[t] # "idle"})

\* when a worker thread can enter the blocking call of task t: whenever the
\* call is in the executor (no lock is taken by the wrapper; the threads of
\* the executor run independently of each other)
Dispatchable(t) == TRUE

\* `if self._closed: ...`, then `await asyncio.to_thread(self._sync_x.method)`
A_Await(t) ==
    /\ pc[t] = "idle"
    /\ awrap.exists
    /\ \E m \in AsyncMethods(awrap.kind) :
        /\ targ' = [targ EXCEPT ![t] = [method |-> m, ticket |-> Issued]]
        /\ IF awrap.closed
           THEN \* close() returns; every other method raises
                /\ pc' = [pc EXCEPT ![t] = "done"]
                /\ tres' = [tres EXCEPT ![t] =
                               IF m = "close" THEN "ok" ELSE "InterfaceError"]
           ELSE /\ pc' = [pc EXCEPT ![t] = "queued"]
                /\ UNCHANGED tres
    /\ UNCHANGED <<jvmVars, apiVars, dbVars, fsVars, asyncVars>>

\* a worker thread of the executor enters the blocking call
A_Run(t) ==
    /\ pc[t] = "queued"
    /\ Dispatchable(t)
    /\ pc' = [pc EXCEPT ![t] = "running"]
    /\ UNCHANGED <<jvmVars, targ, tres, apiVars, dbVars, fsVars, asyncVars>>

\* a mutant of ClosedAfter: _closed is set only when the close returned
ClosedAfterSuccess(method, res) == method = "close" /\ res = "ok"

\* close(): `try: await asyncio.to_thread(...close) finally: self._closed = True`
ClosedAfter(method, res) == method = "close"

\* the blocking call returns or raises, and the task resumes
A_Return(t) ==
    /\ pc[t] = "running"
    /\ pc' = [pc EXCEPT ![t] = "done"]
    /\ \E res \in {"ok", "error"} :
        /\ tres' = [tres EXCEPT ![t] = res]
        /\ awrap' = IF ClosedAfter(targ[t].method, res)
                    THEN [awrap EXCEPT !.closed = TRUE]
                    ELSE awrap
    /\ UNCHANGED <<jvmVars, targ, apiVars, dbVars, fsVars>>

(***************************************************************************)
(* AsyncConnection.create(..., timeout=timeout).  pc[t] of the creating    *)
(* task: "c_queued" (Connection(...) handed to the executor, the task      *)
(* waits), "c_running" (a worker thread is inside Connection.__init__),    *)
(* "c_finished" (the constructor returned or raised, the task has not      *)
(* resumed yet), "done"; after a timeout "cancelled" (the call never       *)
(* started), "abandoned" (the worker thread is still inside the            *)
(* constructor) and "orphaned" (that constructor has ended).               *)
(***************************************************************************)
\* a mutant of AfterTimeout: the timeout stops the worker thread as well
AfterTimeoutInterrupting(position) == "cancelled"

\* asyncio.wait_for cancels the future of the call when the timeout ends:
\* a call no worker thread has taken yet is dropped, one that a thread is
\* executing goes on
AfterTimeout(position) == IF position = "c_queued" THEN "cancelled" ELSE "abandoned"

\* coro = asyncio.to_thread(Connection, jclassname, url, driver_args, jars, libs)
AC_Create(t) ==
    /\ \A u \in Threads : pc[u] = "idle"
    /\ ~conn.exists
    /\ \E timeout \in BOOLEAN, jars \in ClasspathChoices, shape \in DriverArgShapes :
         targ' = [targ EXCEPT ![t] = [timeout |-> timeout, jars |-> jars,
                                      driver_args |-> shape]]
    /\ pc' = [pc EXCEPT ![t] = "c_queued"]
    /\ UNCHANGED <<jvmVars, tres, apiVars, dbVars, fsVars, asyncVars>>

\* a worker thread of the executor calls Connection(...)
AC_WorkerStart(t) ==
    /\ pc[t] = "c_queued"
    /\ pc' = [pc EXCEPT ![t] = "c_running"]
    /\ UNCHANGED <<jvmVars, targ, tres, apiVars, dbVars, fsVars, asyncVars>>

\* await asyncio.wait_for(coro, timeout=timeout) raises TimeoutError
AC_Timeout(t) ==
    /\ pc[t] \in {"c_queued", "c_running"}
    /\ targ[t].timeout
    /\ pc' = [pc EXCEPT ![t] = AfterTimeout(pc[t])]
    /\ tres' = [tres EXCEPT ![t] = "TimeoutError"]
    /\ UNCHANGED <<jvmVars, targ, apiVars, dbVars, fsVars, asyncVars>>

\* Connection.__init__ runs to its end in the worker thread
AC_Construct(t) ==
    /\ pc[t] \in {"c_running", "abandoned"}
    /\ Construct(targ[t].jars, targ[t].driver_args)
    /\ pc' = [pc EXCEPT ![t] = IF pc[t] = "c_running" THEN "c_finished" ELSE "orphaned"]
    /\ UNCHANGED <<targ, tres, fsVars, asyncVars>>

\* sync_conn = await ...; return cls(sync_conn) -- or the exception of the
\* constructor is raised in the task
AC_Resume(t) ==
    /\ pc[t] = "c_finished"
    /\ pc' = [pc EXCEPT ![t] = "done"]
    /\ tres' = [tres EXCEPT ![t] = result]
    /\ awrap' = IF result = "ok"
                THEN [exists |-> TRUE, closed |-> FALSE, kind |-> "AsyncConnection"]
                ELSE awrap
    /\ UNCHANGED <<jvmVars, targ, apiVars, dbVars, fsVars>>

\* Connection.__del__ of the object nothing refers to: close() if not closed
AC_Finalize(t) ==
    /\ pc[t] = "orphaned"
    /\ conn.exists /\ ~conn.closed
    /\ ConnClose

(***************************************************************************)
(* Initial states.                                                         *)
(***************************************************************************)
\* The module is imported: _jvm_started = False.  The process may already
\* hold a VM that another library started through JPype.
InitJvm ==
    /\ jvm_started = FALSE
    /\ vm \in {"NotStarted", "Running"}
    /\ vmArgs = <<>>
    /\ startLog = <<>>
    /\ callerArgs \in {<<>>, <<"-Xmx512m">>}

InitThreads ==
    /\ pc = [t \in Threads |-> "idle"]
    /\ targ = [t \in Threads |-> <<>>]
    /\ tres = [t \in Threads |-> "none"]

\* no async wrapper has been made
InitAsync == awrap = [exists |-> FALSE, closed |-> FALSE, kind |-> "none"]

InitApi ==
    /\ op = [name |-> "none"]
    /\ result = "none"
    /\ trace = <<>>
    /\ returned = <<>>

InitDb ==
    /\ conn = [exists |-> FALSE, closed |-> FALSE, jdbc |-> FALSE]
    /\ nconn = [state |-> "none", closeCalls |-> 0]
    /\ cur = [NewCursor EXCEPT !.exists = FALSE]
    /\ nstmt = <<>>

\* an empty cache directory
InitFs ==
    /\ cacheFile = [k \in Kinds |-> Absent]
    /\ tmpFile = [k \in Kinds |-> Absent]
    /\ requests = 0

InitSeqJvm == InitJvm /\ InitThreads /\ InitAsync /\ InitApi /\ InitDb /\ InitFs

NextJvm == StartJvm \/ ShutdownJvm

SpecJvm == InitSeqJvm /\ [][NextJvm]_vars

\* threads start in a process without a VM
InitJvmThreads ==
    /\ InitJvm /\ vm = "NotStarted" /\ callerArgs = <<>>
    /\ InitThreads /\ InitAsync /\ InitApi /\ InitDb /\ InitFs

NextJvmThreads ==
    \E t \in Threads :
        \/ T_Call(t)
        \/ T_CheckFlag(t)
        \/ T_CheckJpype(t)
        \/ T_NativeStart(t)
        \/ T_SetFlag(t)

SpecJvmThreads == InitJvmThreads /\ [][NextJvmThreads]_vars

\* a process without a VM constructs Connections
InitConnect == InitJvm /\ vm = "NotStarted" /\ callerArgs = <<>>
               /\ InitThreads /\ InitAsync /\ InitApi /\ InitDb /\ InitFs

NextConnect == Connect \/ ConnClose

SpecConnect == InitConnect /\ [][NextConnect]_vars

\* ---------------------------------------------------------------------------
\* jdbc/type_converter.py: TypeConverter.convert_from_jdbc on one cell

\* the codes of JDBC_TYPES
JDBC_TYPES == {-7, -6, -5, -4, -3, -2, -1, 1, 2, 3, 4, 5, 6, 7, 8, 12,
               91, 92, 93, 2004, 2005, 2011}

\* codes convert_from_jdbc has no branch for (java.sql.Types ARRAY and OTHER)
OtherTypes == {2003, 1111}

\* what getObject returns for the cell: null, a boxed 0, a boxed false, an
\* object of the driver, or an object with a getArray method
RawValues == {None, "0", "False", "obj", "array"}

\* the point of convert_from_jdbc at which a call raises: the first
\* getObject, the wasNull after it, the typed accessor, the wasNull after the
\* typed accessor, the conversion of the typed value to the host value, or
\* (CLOB) the conversion and the character stream read after it
Faults == {"none", "getObject", "wasNull", "accessor", "accessorWasNull",
           "convert", "stream"}

\* a cell of the current row as convert_from_jdbc meets it: its type code,
\* the raw value, the was-null flag the native result set holds after the
\* column was read, the call that raises, and what the getObject of the
\* except clause does
Cells ==
    [sql_type : JDBC_TYPES \cup OtherTypes, raw : RawValues, null : BOOLEAN,
     fail : Faults, fallback : {"returns", "raises"}]

\* host values: Python None, a native object passed through, a converted value
PyNone == [py |-> "NoneType", raw |-> None]
Opaque(raw) == IF raw = None THEN PyNone ELSE [py |-> "java", raw |-> raw]
Host(py, raw) == [py |-> py, raw |-> raw]

\* the typed accessor of each branch of convert_from_jdbc
Accessor(sql_type) ==
    IF sql_type \in {1, 12, -1} THEN "getString"
    ELSE IF sql_type \in {-6, 5, 4, -5} THEN "getLong"
    ELSE IF sql_type \in {2, 3} THEN "getBigDecimal"
    ELSE IF sql_type \in {6, 7, 8} THEN "getDouble"
    ELSE IF sql_type = -7 THEN "getBoolean"
    ELSE IF sql_type = 91 THEN "getDate"
    ELSE IF sql_type = 92 THEN "getTime"
    ELSE IF sql_type = 93 THEN "getTimestamp"
    ELSE IF sql_type \in {-4, -3, -2} THEN "getBytes"
    ELSE IF sql_type = 2004 THEN "getBlob"
    ELSE IF sql_type \in {2005, 2011} THEN "getClob"
    ELSE "none"

\* the host type each _convert_* returns
HostType(accessor) ==
    CASE accessor \in {"getString", "getClob"} -> "str"
      [] accessor = "getLong" -> "int"
      [] accessor \in {"getBigDecimal", "getDouble"} -> "float"
      [] accessor = "getBoolean" -> "bool"
      [] accessor = "getDate" -> "date"
      [] accessor = "getTime" -> "time"
      [] accessor = "getTimestamp" -> "datetime"
      [] accessor \in {"getBytes", "getBlob"} -> "bytes"

\* _convert_string alone does not read the was-null flag after its accessor
ChecksWasNull(accessor) == accessor # "getString"

\* the _convert_* that compute on the typed value after the accessor
Converts(accessor) ==
    accessor \in {"getBigDecimal", "getBytes", "getDate", "getTime",
                  "getTimestamp", "getBlob", "getClob"}

\* the _convert_* whose own try/except returns None when that computation
\* raises
Swallows(accessor) == accessor \in {"getDate", "getTime", "getTimestamp", "getBlob"}

\* the NULL test of convert_from_jdbc on the object-only reading: value is None
IsNullValueOnly(raw, null) == raw = None

\* the NULL test of convert_from_jdbc: value is None or resultset.wasNull()
IsNull(raw, null) == raw = None \/ null

Return(value, calls) == [result |-> "ok", value |-> <<value>>, calls |-> calls]

\* the except clause of convert_from_jdbc: return resultset.getObject(i)
Fallback(cell, calls) ==
    IF cell.fallback = "raises"
    THEN [result |-> "Exception", value |-> <<>>, calls |-> calls \o <<"getObject">>]
    ELSE Return(Opaque(cell.raw), calls \o <<"getObject">>)

\* _convert_array and the default branch, for codes without a typed accessor
ConvertOther(cell, calls) ==
    IF cell.raw = "array"
    THEN IF cell.fail \in {"accessor", "convert"}
         THEN Return(PyNone, calls \o <<"getArray">>)
         ELSE Return(Host("list", cell.raw), calls \o <<"getArray">>)
    ELSE Return(Opaque(cell.raw), calls)

\* the _convert_* of the typed accessors
ConvertTyped(cell, calls) ==
    LET acc == Accessor(cell.sql_type)
        read == calls \o <<acc>> \o (IF ChecksWasNull(acc) THEN <<"wasNull">> ELSE <<>>)
    IN  IF cell.fail = "accessor" THEN Fallback(cell, calls \o <<acc>>)
        ELSE IF ChecksWasNull(acc) /\ cell.fail = "accessorWasNull"
        THEN Fallback(cell, read)
        ELSE IF ChecksWasNull(acc) /\ cell.null THEN Return(PyNone, read)
        ELSE IF Converts(acc) /\ cell.fail \in {"convert", "stream"}
        THEN IF Swallows(acc) THEN Return(PyNone, read)
             ELSE IF acc = "getClob"
             THEN IF cell.fail = "stream"
                  THEN Return(PyNone, read \o <<"getCharacterStream">>)
                  ELSE Return(Host("str", cell.raw), read \o <<"getCharacterStream">>)
             ELSE Fallback(cell, read)
        ELSE Return(Host(HostType(acc), cell.raw), read)

\* convert_from_jdbc(resultset, column_index, sql_type): the result, the
\* value returned and the calls made on the result set
ConvertFromJdbcOf(cell) ==
    IF cell.fail = "getObject" THEN Fallback(cell, <<"getObject">>)
    ELSE IF cell.raw = None THEN Return(PyNone, <<"getObject">>)
    ELSE IF cell.fail = "wasNull" THEN Fallback(cell, <<"getObject", "wasNull">>)
    ELSE IF IsNull(cell.raw, cell.null) THEN Return(PyNone, <<"getObject", "wasNull">>)
    ELSE IF Accessor(cell.sql_type) = "none"
         THEN ConvertOther(cell, <<"getObject", "wasNull">>)
         ELSE ConvertTyped(cell, <<"getObject", "wasNull">>)

\* the cursor is on a row and _fetch_row reaches one of its cells
InitConverter ==
    /\ jvm_started = TRUE
    /\ vm = "Running"
    /\ vmArgs = <<>>
    /\ startLog = <<"NotStarted">>
    /\ callerArgs = <<>>
    /\ InitThreads
    /\ InitAsync
    /\ \E cell \in Cells : op = [name |-> "cell", cell |-> cell]
    /\ result = "none"
    /\ trace = <<>>
    /\ returned = <<>>
    /\ conn = [exists |-> TRUE, closed |-> FALSE, jdbc |-> TRUE]
    /\ nconn = [state |-> "open", closeCalls |-> 0]
    /\ cur = NewCursor
    /\ nstmt = <<>>
    /\ InitFs

\* TypeConverter.convert_from_jdbc on that cell
ConvertFromJdbc ==
    /\ op.name = "cell"
    /\ \E r \in {ConvertFromJdbcOf(op.cell)} :
        /\ op' = [op EXCEPT !.name = "convert_from_jdbc"]
        /\ result' = r.result
        /\ returned' = r.value
        /\ trace' = r.calls
    /\ UNCHANGED <<jvmVars, threadVars, dbVars, fsVars, asyncVars>>

NextConverter == ConvertFromJdbc

SpecConverter == InitConverter /\ [][NextConverter]_vars

\* A Connection has been constructed (the VM runs, the native connection is
\* open); its methods and those of its cursor are called in any order.
InitConnected ==
    /\ jvm_started = TRUE
    /\ vm = "Running"
    /\ vmArgs = <<>>
    /\ startLog = <<"NotStarted">>
    /\ callerArgs = <<>>
    /\ InitThreads
    /\ op = [name |-> "connect", driver_args |-> "none", jars |-> <<>>]
    /\ result = "ok"
    /\ trace = <<>>
    /\ returned = <<>>
    /\ conn = [exists |-> TRUE, closed |-> FALSE, jdbc |-> TRUE]
    /\ nconn = [state |-> "open", closeCalls |-> 0]
    /\ cur = [NewCursor EXCEPT !.exists = FALSE]
    /\ nstmt = <<>>
    /\ InitFs

Init == InitConnected /\ InitAsync

Next ==
    \/ ConnClose
    \/ ConnCall
    \/ ConnCursor
    \/ Execute
    \/ ExecuteMany
    \/ CursorClose
    \/ FetchOne
    \/ FetchMany
    \/ FetchAll

Spec == Init /\ [][Next]_vars

\* the driver cache, used by one thread of one process
InitDrivers == InitJvm /\ vm = "NotStarted" /\ callerArgs = <<>>
               /\ InitThreads /\ InitAsync /\ InitApi /\ InitDb /\ InitFs

NextDrivers == DownloadDriver \/ GetDriverPath \/ GetClasspathWithDrivers

\* a process builds classpaths and starts the VM with auto-resolved drivers
NextResolve == ResolveClasspath \/ StartJvmResolving

SpecResolve == InitDrivers /\ [][NextResolve]_vars

\* a process that resolves lists of drivers and manages the cache
NextPaths == GetAllDriverPaths \/ DownloadDriver \/ GetDriverPath \/ ClearDriverCache

SpecPaths == InitDrivers /\ [][NextPaths]_vars

\* a process that merges manual and auto-resolved classpath entries
NextMerge == MergeClasspath \/ DownloadDriver

SpecMerge == InitDrivers /\ [][NextMerge]_vars

\* a cursor that runs batches
NextBatch == ConnCursor \/ Execute \/ BatchExecute \/ CursorClose

SpecBatch == Init /\ [][NextBatch]_vars

\* a Connection used as a context manager
NextContext == ConnCursor \/ Execute \/ CursorClose \/ ConnClose \/ ConnExit

SpecContext == Init /\ [][NextContext]_vars

\* a cursor that executes statements
NextExecute == ConnCursor \/ ExecuteAny \/ FetchOne \/ CursorClose

SpecExecute == Init /\ [][NextExecute]_vars

\* a cursor that executes a query and fetches its rows
NextFetch ==
    \/ ConnCursor
    \/ FetchedQuery
    \/ FetchOneRow
    \/ FetchSomeRows
    \/ FetchAllRows
    \/ CursorClose

SpecFetch == Init /\ [][NextFetch]_vars

\* tasks of one event loop await methods of one AsyncCursor or AsyncConnection
InitAsyncHandle ==
    /\ InitConnected
    /\ awrap \in {[exists |-> TRUE, closed |-> FALSE, kind |-> k] :
                    k \in {"AsyncCursor", "AsyncConnection"}}

NextAsyncHandle == \E t \in Threads : A_Await(t) \/ A_Run(t) \/ A_Return(t)

SpecAsyncHandle == InitAsyncHandle /\ [][NextAsyncHandle]_vars

\* a task creates an AsyncConnection in a process without a VM
NextAsyncCreate ==
    \E t \in Threads :
        \/ AC_Create(t)
        \/ AC_WorkerStart(t)
        \/ AC_Timeout(t)
        \/ AC_Construct(t)
        \/ AC_Resume(t)
        \/ AC_Finalize(t)

SpecAsyncCreate == InitConnect /\ [][NextAsyncCreate]_vars

SpecDrivers == InitDrivers /\ [][NextDrivers]_vars

\* workers download the same driver into an empty cache
NextDownloadWorkers ==
    \E t \in Threads :
        \/ D_Call(t)
        \/ D_CheckExists(t)
        \/ D_Urlopen(t)
        \/ D_Open(t)
        \/ D_Write(t)
        \/ D_Replace(t)

SpecDownloadWorkers == InitDrivers /\ [][NextDownloadWorkers]_vars

(***************************************************************************)
(* Properties.                                                             *)
(***************************************************************************)
ConnectionOps == {"cursor", "commit", "rollback", "set_auto_commit", "get_auto_commit"}
FetchOps == {"fetchone", "fetchmany", "fetchall"}
LastCall(tr) == tr[Len(tr)].call

\* C1 (SpecJvmThreads): when several threads call start_jvm while no VM is
\* running, jpype.startJVM is never invoked on a VM that another thread has
\* already started, and no caller gets a startup error caused by such a
\* second start.
C1_SingleNativeStart ==
    /\ \A i \in 1..Len(startLog) : startLog[i] # "Running"
    /\ \A t \in Threads : tres[t] # "JVMNotStartedError: already started"

\* C2 (SpecJvm): a start_jvm call made while a VM is running (started by an
\* earlier start_jvm, or by someone else and detected), with whatever
\* classpath and arguments, returns without error, does not invoke
\* jpype.startJVM and leaves the VM and the arguments it was started with
\* as they are.
C2_LaterStartIsNoOp ==
    [][(vm = "Running" /\ op'.name = "start_jvm")
        => /\ result' = "ok"
           /\ ~HasCall(trace', "jpype.startJVM")
           /\ startLog' = startLog
           /\ vm' = "Running"
           /\ vmArgs' = vmArgs]_vars

\* a second start_jvm, with another classpath, after one that started the VM
C2_Witness ==
    /\ op.name = "start_jvm" /\ op.classpath = <<"b.jar">>
    /\ result = "ok" /\ trace = <<>>
    /\ vm = "Running" /\ startLog = <<"NotStarted">>
    /\ vmArgs = <<"-Djava.class.path=a.jar">>

\* C3 (Spec): execute() of B on a cursor that holds A's open result set
\* does not fail at closing A's handles, has closed A's statement and
\* result set before it creates B's statement, and every fetch after an
\* execute() returns only rows of the operation of that execute().
C3_ReexecuteReplacesResult ==
    /\ (op.name = "execute" /\ op.heldOpen)
        => /\ result = "ProgrammingError"
                => LastCall(trace) \notin {"stmt.close", "rs.close"}
           /\ \A i \in 1..Len(trace) :
                trace[i].call \in {"createStatement", "prepareStatement"}
                => /\ \E j \in 1..(i - 1) : trace[j].call = "stmt.close"
                   /\ \E j \in 1..(i - 1) : trace[j].call = "rs.close"
                   /\ nstmt[op.heldStmt].state = "closed"
                   /\ nstmt[op.heldRs].rs = "closed"
    /\ (op.name \in FetchOps /\ cur.last # None)
        => \A i \in 1..Len(returned) : returned[i].q = cur.last

\* a native statement / result set on which close() was invoked, or that the
\* driver closed
StmtReleased(h) == nstmt[h].state = "closed" \/ nstmt[h].closeCalls > 0
RsReleased(h) == nstmt[h].rs # "open" \/ nstmt[h].rsCloseCalls > 0

\* C4 (Spec): at most one native statement and one native result set of the
\* cursor is unreleased at any time, and once the cursor is closed all of
\* them are released.
C4_OneOpenHandle ==
    /\ Cardinality({h \in 1..Len(nstmt) : ~StmtReleased(h)}) <= 1
    /\ Cardinality({h \in 1..Len(nstmt) : ~RsReleased(h)}) <= 1
    /\ cur.closed => \A h \in 1..Len(nstmt) : StmtReleased(h) /\ RsReleased(h)

\* C5 (Spec): after Connection.close(), execute, executemany and the fetches
\* of its cursor fail with the error of a liveness check before any native
\* call is made.
C5_NoNativeCallAfterConnectionClose ==
    (conn.closed /\ op.name \in {"execute", "executemany"} \cup FetchOps)
        => (trace = <<>> /\ result = "InterfaceError")

\* C6 (Spec): close() of a Connection or a Cursor never raises, a repeated
\* close() makes no native call, and close() is invoked at most once in
\* total on the native connection, on each native statement and on each
\* native result set.
C6_CloseIdempotent ==
    /\ op.name \in {"conn.close", "cursor.close"}
        => (result = "ok" /\ (op.again => trace = <<>>))
    /\ nconn.closeCalls <= 1
    /\ \A h \in 1..Len(nstmt) : nstmt[h].closeCalls <= 1 /\ nstmt[h].rsCloseCalls <= 1

C8_ConstructionOrder ==
    op.name = "connect" =>
        /\ (HasCall(trace, "jpype.startJVM") /\ vm # "Running")
            => /\ result = "InterfaceError"
               /\ ~HasCall(trace, "JClass")
               /\ ~HasCall(trace, "getConnection")
        /\ \A i, j \in 1..Len(trace) :
            /\ (trace[i].call = "JClass" /\ trace[j].call = "jpype.startJVM") => j < i
            /\ (trace[i].call = "getConnection" /\ trace[j].call = "JClass") => j < i
        /\ HasCall(trace, "getConnection")
            => (vm = "Running"
                /\ \E j \in 1..Len(trace) :
                     trace[j].call = "JClass" /\ trace[j].arg = "driver")
        /\ result = "ok"
            => /\ CountCall(trace, "getConnection") = 1
               /\ LastCall(trace) = "getConnection"
               /\ trace[Len(trace)].arg =
                    (CASE op.driver_args = "none" -> "url"
                       [] op.driver_args = "dict" -> "url,props"
                       [] op.driver_args \in {"list2", "tuple2"} -> "url,user,password"
                       [] OTHER -> "unsupported")

\* a Connection constructed with a property map, in a process that had no VM
C8_Witness ==
    /\ op.name = "connect" /\ op.driver_args = "dict" /\ result = "ok"
    /\ conn.exists /\ nconn.state = "open"
    /\ HasCall(trace, "jpype.startJVM")

\* C9 (SpecConnect): a driver_args that is neither absent, nor a dict, nor
\* a pair fails with an interface-level error, before the driver class is
\* loaded and before getConnection is called.
C9_BadShapeFailsEarly ==
    (op.name = "connect" /\ op.driver_args \in {"list1", "str"})
        => /\ result = "InterfaceError"
           /\ ~HasCall(trace, "JClass")
           /\ ~HasCall(trace, "getConnection")

\* a file that passes verification: it exists, is not empty and holds a
\* valid archive
PassesVerification(f) == f.state = "valid"

\* the database kind whose cache path p is, if any
KindsAt(p) == {k \in Kinds : CachePath(k) = p}

\* C10 (SpecDrivers): every path download_driver or get_driver_path returns,
\* and every auto-resolved entry of a classpath, is a file that passes
\* verification; and a download never installs at the cache path a file that
\* fails it.
C10_NeverServedUnverified ==
    /\ (op.name \in {"download_driver", "get_driver_path",
                     "get_classpath_with_drivers"} /\ result = "ok")
        => \A i \in 1..Len(returned) :
             \A k \in KindsAt(returned[i]) :
                (\A j \in 1..Len(op.manual) : op.manual[j] # returned[i])
                => PassesVerification(cacheFile[k])
    /\ \A k \in Kinds : Exists(cacheFile[k]) => PassesVerification(cacheFile[k])

\* workers that hold the file at the temporary path open for writing
TempWriters == {t \in Threads : pc[t] = "dl_write" /\ targ[t].at = "tmp"}

\* workers whose open descriptor refers to the file at the cache path
CacheWriters == {t \in Threads : pc[t] = "dl_write" /\ targ[t].at = "cache"}

\* C11 (SpecDownloadWorkers): under every interleaving of download attempts
\* for one driver the file at the cache path is absent or completely
\* written, and no attempt writes into a file that another attempt is
\* writing or has installed.
C11_NoPartialFileAtCachePath ==
    /\ cacheFile[SameDriver].state \in {"absent", "valid"}
    /\ Cardinality(TempWriters) <= 1
    /\ CacheWriters = {}

Entries(classpath) == {classpath[i] : i \in 1..Len(classpath)}

\* C13 (SpecResolve): with auto_download, a classpath that is returned by
\* get_classpath_with_drivers, or that start_jvm starts the VM with, holds
\* the driver of every database asked for: a failed download is an error of
\* the call, never a missing entry.
C13_DownloadFailureSurfaces ==
    (/\ op.name \in {"get_classpath_with_drivers", "start_jvm"}
     /\ op.auto_download
     /\ result = "ok"
     /\ op.name = "start_jvm" => HasCall(trace, "jpype.startJVM"))
    => \A i \in 1..Len(op.databases) :
          op.databases[i] \in Kinds
          => CachePath(op.databases[i]) \in Entries(returned)

\* C14 (SpecAsyncHandle): the blocking calls of one AsyncCursor or
\* AsyncConnection never overlap -- at most one worker thread is inside a
\* call of the handle -- and they are entered in the order in which the
\* tasks issued them.
C14_CallsSerialized ==
    /\ Cardinality(Running) <= 1
    /\ \A t \in Running : \A u \in Threads :
          pc[u] = "queued" => targ[u].ticket > targ[t].ticket

\* tasks whose create() ended with the timeout
TimedOut == {t \in Threads : pc[t] \in {"cancelled", "abandoned", "orphaned"}}

\* C15 (SpecAsyncCreate): a create() that times out gives its caller
\* TimeoutError and no AsyncConnection; the timeout leaves a constructor that
\* a worker thread is executing as it is (the VM, the Connection and the
\* native connection are untouched and the constructor can still end), and
\* the Connection such a constructor makes is wrapped by no AsyncConnection.
C15_TimeoutAbandons ==
    [][/\ \A t \in TimedOut : tres[t] = "TimeoutError" /\ ~awrap.exists
       /\ \A t \in Threads :
            (pc[t] = "c_running" /\ tres'[t] = "TimeoutError" /\ tres[t] # "TimeoutError")
            => /\ pc'[t] = "abandoned"
               /\ UNCHANGED <<jvmVars, dbVars>>
       /\ \A t \in Threads :
            (pc[t] = "abandoned" /\ pc'[t] # "abandoned")
            => pc'[t] = "orphaned"]_vars

\* the constructor of a timed-out create() has opened a native connection
\* that no AsyncConnection wraps
C15_Witness ==
    \E t \in Threads :
        /\ pc[t] = "orphaned" /\ tres[t] = "TimeoutError"
        /\ conn.exists /\ nconn.state = "open" /\ ~awrap.exists

RECURSIVE Flatten(_)
\* the parameters of all parameter sets, in order
Flatten(sets) == IF sets = <<>> THEN <<>> ELSE Head(sets) \o Flatten(Tail(sets))

RECURSIVE SetsBefore(_, _)
\* the trace index of the addBatch call of parameter set k: after the
\* prepareStatement call, the binds of sets 1..k and k - 1 addBatch calls
SetsBefore(sets, k) == IF k = 0 THEN 1 ELSE SetsBefore(sets, k - 1) + Len(sets[k]) + 1

\* the rows of a batch whose count is not a negative sentinel
Counted(results) == {i \in 1..Len(results) : results[i] >= 0}

RECURSIVE Total(_, _)
\* the sum of the counts of a set of rows
Total(results, rows) ==
    IF rows = {} THEN 0
    ELSE LET i == CHOOSE x \in rows : TRUE
         IN  results[i] + Total(results, rows \ {i})

\* C16 (SpecBatch): a successful executemany prepares one statement, then for
\* each parameter set in the given order binds its parameters and adds one
\* batch entry, then executes the batch once; rowcount is the sum of the
\* per-row counts that are not negative, which is N for N sets that each
\* affect one row.
C16_BatchAggregation ==
    (op.name = "executemany" /\ result = "ok")
    => LET sets  == op.seq_of_parameters
           binds == SelectSeq(trace, LAMBDA c : c.call \in {"setObject", "setNull"})
           flat  == Flatten(sets)
       IN  /\ CountCall(trace, "prepareStatement") = 1
           /\ trace[1].call = "prepareStatement"
           /\ CountCall(trace, "executeBatch") = 1
           /\ trace[Len(trace)].call = "executeBatch"
           /\ CountCall(trace, "addBatch") = Len(sets)
           /\ \A k \in 1..Len(sets) : trace[SetsBefore(sets, k)].call = "addBatch"
           /\ Len(binds) = Len(flat)
           /\ \A i \in 1..Len(flat) :
                IF flat[i] = None THEN binds[i].call = "setNull"
                ELSE binds[i].call = "setObject" /\ binds[i].arg = flat[i]
           /\ \A i \in 1..Len(trace) : trace[i].h = cur.stmt
           /\ cur.rowcount = Total(op.results, Counted(op.results))
           /\ (\A i \in 1..Len(op.results) : op.results[i] = 1)
                => cur.rowcount = Len(sets)

\* a batch of three parameter sets in which a row reports the sentinel
C16_Witness ==
    /\ op.name = "executemany" /\ result = "ok"
    /\ Len(op.seq_of_parameters) = 3
    /\ op.results = <<1, -2, 1>>
    /\ cur.rowcount = 2

\* the rows a fetch must return from a result set with k rows remaining
ExpectedRows(name, want, k) ==
    IF name = "fetchall" THEN k
    ELSE IF k < want THEN k ELSE want

\* C17 (SpecFetch): a fetch on a cursor that holds the result set of an
\* executed query, k rows of it remaining, does not raise: fetchone returns
\* a row or, for k = 0, None; fetchmany(n) returns min(n, k) rows; fetchall
\* returns k rows -- also at and after exhaustion, however often it is called.
C17_FetchCounts ==
    (op.name \in FetchOps /\ op.rs # 0)
    => /\ result = "ok"
       /\ Len(returned) = ExpectedRows(op.name, op.want, op.remaining)

\* C18 (SpecExecute): after a successful execute, if the statement produced a
\* result set, description is the tuple of this query's columns in order,
\* each a 7-tuple with name and type code set and the other five fields
\* unset, and rowcount is -1; otherwise description is None and rowcount is
\* the native update count.  Neither is a value of an earlier execute.
C18_DescriptionAndRowcount ==
    (op.name = "execute" /\ result = "ok")
    => IF HasResultSet(op.sql)
       THEN /\ cur.description = op.sql
            /\ cur.rowcount = -1
            /\ LET d == DescriptionTuple(cur.description)
               IN  /\ Len(d) = Len(Columns(op.sql))
                   /\ \A i \in 1..Len(d) :
                        /\ Len(d[i]) = 7
                        /\ d[i][1] = Columns(op.sql)[i].name
                        /\ d[i][2] = Columns(op.sql)[i].type
                        /\ \A j \in 3..7 : d[i][j] = None
       ELSE /\ cur.description = None
            /\ cur.rowcount = op.count

ConversionFailed(cell) ==
    /\ cell.sql_type \in JDBC_TYPES
    /\ cell.raw # None
    /\ ~cell.null
    /\ LET acc == Accessor(cell.sql_type)
       IN  \/ cell.fail = "accessor"
           \/ cell.fail = "accessorWasNull" /\ ChecksWasNull(acc)
           \/ cell.fail = "convert" /\ Converts(acc) /\ acc # "getClob"
           \/ cell.fail = "stream" /\ Converts(acc)

\* C20 (SpecConverter): for every supported type code, when the type-specific
\* conversion of a non-NULL cell fails, convert_from_jdbc does not raise and
\* returns the native value of the generic accessor, never None.
C20_FailureFallsBackToNative ==
    (op.name = "convert_from_jdbc" /\ ConversionFailed(op.cell))
    => /\ result = "ok"
       /\ returned = <<Opaque(op.cell.raw)>>


\* C21 (SpecConverter): for a type code outside the supported set,
\* convert_from_jdbc returns the value of the generic accessor, as a host list
\* when that value is a native array, and never raises.
C21_TotalOverTypeCodes ==
    (/\ op.name = "convert_from_jdbc"
     /\ op.cell.sql_type \notin JDBC_TYPES)
    => /\ result = "ok"
       /\ returned = <<IF IsNull(op.cell.raw, op.cell.null) THEN PyNone
                       ELSE IF op.cell.raw = "array" THEN Host("list", op.cell.raw)
                       ELSE Opaque(op.cell.raw)>>


\* the position of the first occurrence of x in seq
First(seq, x) == CHOOSE i \in 1..Len(seq) : seq[i] = x /\ \A k \in 1..(i - 1) : seq[k] # x

\* C22 (SpecMerge): get_classpath_with_drivers returns the order-preserving
\* de-duplication of the manual entries followed by the auto-resolved ones:
\* each of them occurs exactly once, none is invented, they stand in the
\* order of their first occurrences, and every manual entry precedes every
\* auto-resolved entry that is not manual.
C22_MergedClasspath ==
    (op.name = "get_classpath_with_drivers")
    => LET all == op.manual \o op.auto_paths
           out == returned
           Manual(p) == \E i \in 1..Len(op.manual) : op.manual[i] = p
       IN  /\ \A i \in 1..Len(all) :
                Cardinality({j \in 1..Len(out) : out[j] = all[i]}) = 1
           /\ \A j \in 1..Len(out) : \E i \in 1..Len(all) : all[i] = out[j]
           /\ \A j1, j2 \in 1..Len(out) :
                j1 < j2 => First(all, out[j1]) < First(all, out[j2])
           /\ \A j1, j2 \in 1..Len(out) :
                (Manual(out[j1]) /\ ~Manual(out[j2])) => j1 < j2

\* a manual entry repeated, a manual entry that an auto-resolved entry
\* repeats, and an auto-resolved entry that is not manual
C22_Witness ==
    /\ op.name = "get_classpath_with_drivers"
    /\ op.manual = <<"manual.jar", "cache/postgresql.jar", "other.jar">>
    /\ op.auto_paths = <<"cache/postgresql.jar", "cache/mysql.jar">>
    /\ returned = <<"manual.jar", "cache/postgresql.jar", "other.jar", "cache/mysql.jar">>


\* C23 (SpecDrivers): download_driver with force=true makes exactly one
\* request although the cache file exists, and when it succeeds the file at
\* the cache path is the content of that request and passes verification.
C23_ForceRedownloadReplaces ==
    (op.name = "download_driver" /\ op.force)
    => /\ trace = UrlopenCalls(1)
       /\ result = "ok"
            => /\ cacheFile[op.database].gen = requests
               /\ PassesVerification(cacheFile[op.database])


\* C24 (SpecJvm): over any sequence of start_jvm and shutdown_jvm calls the
\* VM enters the running state at most once: once shutdown_jvm has stopped
\* a running VM it stays stopped, no later start_jvm reports success, and
\* the module does not record a VM as started again.
C24_NoRestartAfterShutdown ==
    [][vm = "Stopped"
        => /\ vm' = "Stopped"
           /\ ~jvm_started'
           /\ op'.name = "start_jvm" => result' = "JVMNotStartedError"]_vars

\* a start_jvm after shutdown_jvm reached jpype.startJVM on the stopped VM
C24_Witness ==
    /\ op.name = "start_jvm"
    /\ vm = "Stopped"
    /\ result = "JVMNotStartedError"
    /\ startLog[Len(startLog)] = "Stopped"
    /\ \E i \in 1..Len(startLog) : startLog[i] = "NotStarted"


\* C25 (SpecJvm): when the native VM start fails, start_jvm raises
\* JVMNotStartedError and the module does not record the VM as started; the
\* next start_jvm call invokes jpype.startJVM again instead of returning as
\* if a VM were running.
C25_FailedStartNotRecorded ==
    [][/\ (op'.name = "start_jvm" /\ HasCall(trace', "jpype.startJVM")
           /\ vm' # "Running")
          => /\ result' = "JVMNotStartedError"
             /\ ~jvm_started'
       /\ (op.name = "start_jvm" /\ result = "JVMNotStartedError"
           /\ op'.name = "start_jvm")
          => HasCall(trace', "jpype.startJVM")]_vars

\* a start_jvm that started the VM after an earlier one had failed to
C25_Witness ==
    /\ op.name = "start_jvm"
    /\ result = "ok"
    /\ startLog = <<"NotStarted", "NotStarted">>
    /\ vm = "Running"
    /\ jvm_started


\* C26 (SpecConnect): when the first Connection is constructed without
\* explicit classpath entries, the VM is started with the classpath the
\* driver resolver builds, not with an empty one.  The cache directory is
\* empty in this specification, so a resolution asks the network for the
\* recommended drivers before jpype.startJVM.
C26_ConstructionResolvesDrivers ==
    (/\ op.name = "connect"
     /\ op.jars = <<>>
     /\ HasCall(trace, "jpype.startJVM"))
    => HasCall(trace, "urlopen")


\* the calls that reach the native connection, statement or result set
NativeOps == {"execute", "executemany", "fetchone", "fetchmany", "fetchall",
              "commit", "rollback"}

\* C27 (Spec): a native failure during execute, executemany, a fetch, commit
\* or rollback surfaces as an error of the database-error family; the native
\* exception of the model carries no indication of a kind, so the error is
\* the generic DatabaseError, not ProgrammingError or DataError.
C27_GenericDatabaseError ==
    (/\ op.name \in NativeOps
     /\ trace # <<>>
     /\ result # "ok")
    => result = "DatabaseError"


\* C28 (Spec): on an open Connection, commit() and rollback() each make the
\* corresponding native call exactly once; when it raises, the method raises
\* DatabaseError; either way the Connection stays open with its native
\* handle unchanged, and a close() that follows closes the native connection.
C28_CommitRollbackDelegate ==
    [][/\ (~conn.closed /\ op'.name \in {"commit", "rollback"})
          => /\ trace' = <<NC(op'.name)>>
             /\ result' \in {"ok", "DatabaseError"}
             /\ conn' = conn
             /\ nconn' = nconn
       /\ (/\ op.name \in {"commit", "rollback"}
           /\ result = "DatabaseError"
           /\ op'.name = "conn.close")
          => /\ HasCall(trace', "conn.close")
             /\ conn'.closed
             /\ nconn.state = "open" => nconn'.closeCalls = nconn.closeCalls + 1]_vars

\* a rollback() whose native call raised, on a Connection that is open
C28_Witness ==
    /\ op.name = "rollback"
    /\ result = "DatabaseError"
    /\ trace = <<NC("rollback")>>
    /\ ~conn.closed
    /\ conn.jdbc
    /\ nconn.state = "open"


\* C29 (SpecContext): leaving the context manager of a Connection calls
\* commit and then close when the block ended normally, rollback and then
\* close when it ended with an exception: exactly one of commit and rollback
\* is called, before close, and close is called exactly once.
C29_ExitCommitsOrRollsBackThenCloses ==
    (op.name = "conn.__exit__")
    => returned = <<IF op.exc THEN "rollback" ELSE "commit", "close">>


\* the bind calls of a trace, in order: the method, the index and the value
Binds(tr) ==
    LET b == SelectSeq(tr, LAMBDA c : c.call \in {"setNull", "setObject"})
    IN  [j \in 1..Len(b) |-> <<b[j].call, b[j].i, b[j].arg>>]

\* one bind call for each position k of p, at index k: setNull(k, 0) for
\* None, setObject(k, p[k]) otherwise
Bound(p) ==
    [k \in 1..Len(p) |->
        IF p[k] = None THEN <<"setNull", k, "0">> ELSE <<"setObject", k, p[k]>>]

RECURSIVE BoundAll(_)
BoundAll(sets) == IF sets = <<>> THEN <<>> ELSE Bound(Head(sets)) \o BoundAll(Tail(sets))

\* C30 (SpecBatch): when execute or executemany binds a non-empty parameter
\* sequence p, a prepared statement is used and exactly one bind call is made
\* for every position, at the 1-based index: setNull(index, 0) for None,
\* setObject(index, value) otherwise.  An execute without parameters uses a
\* plain statement and makes no bind call.
C30_ParameterBinding ==
    /\ (op.name = "execute" /\ result = "ok" /\ op.parameters # <<>>)
        => /\ HasCall(trace, "prepareStatement")
           /\ ~HasCall(trace, "createStatement")
           /\ Binds(trace) = Bound(op.parameters)
    /\ (op.name = "execute" /\ op.parameters = <<>>)
        => /\ ~HasCall(trace, "prepareStatement")
           /\ Binds(trace) = <<>>
           /\ result = "ok" => HasCall(trace, "createStatement")
    /\ (op.name = "executemany" /\ result = "ok")
        => /\ HasCall(trace, "prepareStatement")
           /\ ~HasCall(trace, "createStatement")
           /\ Binds(trace) = BoundAll(op.seq_of_parameters)

\* an execute that bound None at index 1 and a value at index 2
C30_Witness ==
    /\ op.name = "execute" /\ result = "ok"
    /\ op.parameters = <<None, "v">>
    /\ Binds(trace) = << <<"setNull", 1, "0">>, <<"setObject", 2, "v">> >>


RECURSIVE Resolved(_, _, _, _)
\* the paths of the kinds of databases[i..] whose resolution succeeds, given
\* the kinds cached before: a known kind that is cached, or that is
\* downloaded whole when auto_download is on
Resolved(o, i, cached, auto_download) ==
    IF i > Len(o.databases) THEN <<>>
    ELSE LET k  == o.databases[i]
             ok == /\ k \in Kinds
                   /\ \/ k \in cached
                      \/ auto_download /\ o.responses[i] \notin {"error", "truncated"}
         IN  IF ok
             THEN <<CachePath(k)>> \o Resolved(o, i + 1, cached \cup {k}, auto_download)
             ELSE Resolved(o, i + 1, cached, auto_download)

\* C31 (SpecPaths): get_all_driver_paths resolves the requested kinds in
\* request order and a kind that fails does not stop the others: it raises
\* nothing and returns, in request order, exactly the paths of the kinds
\* whose resolution succeeded.
C31_FailuresSkipped ==
    (op.name = "get_all_driver_paths")
    => /\ result = "ok"
       /\ returned = Resolved(op, 1, op.cached, op.auto_download)

\* an unknown kind and a failed download, with a kind resolved after each
C31_Witness ==
    /\ op.name = "get_all_driver_paths"
    /\ op.databases = <<"mysql", "nosuchdb", "postgresql">>
    /\ op.cached = {}
    /\ op.responses[1] = "error"
    /\ returned = <<CachePath("postgresql")>>


\* the *.jar files in the cache directory
Jarred(cache) == {k \in Kinds : Exists(cache[k])}

\* the next get_driver_path for a kind is a cache miss: it asks the network
\* when auto_download is on and raises RuntimeError when it is off
MissNext ==
    (op'.name = "get_driver_path" /\ op'.database \in Kinds)
    => IF op'.auto_download THEN trace' = UrlopenCalls(1)
       ELSE result' = "RuntimeError" /\ trace' = <<>>

\* C32 as stated (SpecPaths): clear_driver_cache deletes every *.jar of the
\* cache directory, returns the number of files deleted and leaves other
\* files untouched; afterwards list_cached_drivers is empty and the next
\* get_driver_path is a cache miss.
C32_ClearDeletesAll ==
    [][/\ op'.name = "clear_driver_cache"
          => /\ Jarred(cacheFile') = {}
             /\ returned' = <<Cardinality(Jarred(cacheFile))>>
             /\ tmpFile' = tmpFile
             /\ ListCachedDrivers(cacheFile') = {}
       /\ op.name = "clear_driver_cache" => MissNext]_vars

\* C32 amended (SpecPaths): clear_driver_cache deletes every *.jar whose
\* unlink succeeds, returns the number of files it deleted, and leaves the
\* other files, and the *.jar files it could not delete, untouched; when the
\* number returned is the number of *.jar files that were present,
\* list_cached_drivers is empty afterwards and the next get_driver_path is a
\* cache miss.
C32_ClearDeletesWhatItCan ==
    [][/\ op'.name = "clear_driver_cache"
          => /\ Jarred(cacheFile') = op'.failing
             /\ \A k \in op'.failing : cacheFile'[k] = cacheFile[k]
             /\ returned' = <<Cardinality(Jarred(cacheFile) \ Jarred(cacheFile'))>>
             /\ tmpFile' = tmpFile
             /\ returned' = <<Cardinality(Jarred(cacheFile))>>
                  => ListCachedDrivers(cacheFile') = {}
       /\ (/\ op.name = "clear_driver_cache"
           /\ returned = <<Cardinality(Jarred(op.before))>>)
          => MissNext]_vars

\* a clear that deleted one of two cached drivers and could not delete the other
C32_Witness ==
    /\ op.name = "clear_driver_cache"
    /\ Jarred(op.before) = Kinds
    /\ op.failing = {"mysql"}
    /\ returned = <<1>>
    /\ Jarred(cacheFile) = {"mysql"}


\* C33 (SpecDrivers): when a download attempt fails, at opening the URL or
\* while the body is streamed, download_driver raises RuntimeError and the
\* file at the cache path is what it was before the call: an absent file
\* stays absent, with force=true an existing file keeps its content, and a
\* partial body is not installed at the cache path.
C33_FailedDownloadKeepsCache ==
    [][(op'.name = "download_driver" /\ result' # "ok")
        => /\ result' = "RuntimeError"
           /\ cacheFile' = cacheFile
           /\ cacheFile'[op'.database].state # "partial"]_vars

\* a forced download that broke while streaming, over an existing cache file
C33_Witness ==
    /\ op.name = "download_driver" /\ op.force
    /\ result = "RuntimeError"
    /\ tmpFile[op.database] = File("partial", requests)
    /\ Exists(cacheFile[op.database])
    /\ cacheFile[op.database].gen < requests


\* C34 (SpecAsyncHandle): once close() has been awaited on an AsyncCursor or
\* AsyncConnection the wrapper is marked closed, also when the wrapped close
\* raised; from then on every other operation raises InterfaceError and a
\* further close() returns, and neither hands a call to the wrapped handle.
C34_ClosedWrapperRejects ==
    [][/\ \A t \in Threads :
            (pc[t] = "running" /\ targ[t].method = "close" /\ pc'[t] = "done")
            => awrap'.closed
       /\ awrap.closed => awrap'.closed
       /\ \A t \in Threads :
            (awrap.closed /\ pc[t] = "idle" /\ pc'[t] # "idle")
            => /\ pc'[t] = "done"
               /\ tres'[t] = IF targ'[t].method = "close" THEN "ok"
                             ELSE "InterfaceError"]_vars

\* a close() whose wrapped close raised, and an operation rejected after it
C34_Witness ==
    /\ awrap.closed
    /\ \E t, u \in Threads :
        /\ pc[t] = "done" /\ targ[t].method = "close" /\ tres[t] = "error"
        /\ pc[u] = "done" /\ targ[u].method # "close" /\ tres[u] = "InterfaceError"


\* rows pos+1 .. pos+d of the result of query sql, in result order
RowsFrom(sql, pos, d) == [j \in 1..d |-> Row(sql, pos + j)]

\* C35 (SpecFetch): every fetchone, fetchmany(n) and fetchall that returns
\* delivers the rows that follow the native cursor's position, in result
\* order, and leaves the native cursor on the last row it delivered -- so
\* that everything returned so far is a prefix of r1..rk; a fetch that
\* returns fewer rows than it asked for has delivered the last row, and a
\* fetchmany(n) that returns n rows has advanced the native cursor by n.
C35_RowsInOrder ==
    [][(op'.name \in FetchOps /\ op'.rs # 0 /\ result' = "ok")
       => LET h   == op'.rs
              pos == IF nstmt[h].pos > NumRows THEN NumRows ELSE nstmt[h].pos
              d   == Len(returned')
          IN  /\ returned' = RowsFrom(nstmt[h].sql, pos, d)
              /\ pos + d <= NumRows
              /\ IF d = op'.want
                 THEN nstmt'[h].pos = pos + d
                 ELSE pos + d = NumRows /\ nstmt'[h].pos = NumRows + 1]_vars


\* the last call was a successful execute of a statement without a result
\* set, or a successful executemany
ExecutedWithoutResultSet ==
    /\ result = "ok"
    /\ \/ op.name = "execute" /\ ~HasResultSet(op.sql)
       \/ op.name = "executemany"

\* C36 (Spec): after a successful execute of a statement that produces no
\* result set, and after a successful executemany, the cursor holds no result
\* set, and a fetch that follows raises InterfaceError without a native call
\* and returns nothing.
C36_NoStaleResultSet ==
    [][ExecutedWithoutResultSet
       => /\ cur.rs = 0
          /\ op'.name \in FetchOps
             => /\ result' = "InterfaceError"
                /\ trace' = <<>>
                /\ returned' = <<>>]_vars


\* C37 (SpecJvm): after any sequence of start_jvm and shutdown_jvm calls,
\* failed starts and failed shutdowns included, the module's started flag is
\* set only while a VM is running in the process, and a start_jvm that
\* returned without error left a VM running.
C37_FlagImpliesRunning ==
    /\ jvm_started => vm = "Running"
    /\ (op.name = "start_jvm" /\ result = "ok") => vm = "Running"

\* a shutdown that failed, after a start that failed and one that succeeded
C37_Witness ==
    /\ op.name = "shutdown_jvm"
    /\ result = "RuntimeError"
    /\ startLog = <<"NotStarted", "NotStarted">>
    /\ jvm_started
    /\ vm = "Running"


\* C38 (SpecContext): when the context manager of a Connection has been left,
\* by return or by exception, also one raised by the commit or rollback of
\* the exit, the connection is closed and close() has been invoked on its
\* native connection.
C38_ExitAlwaysCloses ==
    (op.name = "conn.__exit__")
    => /\ conn.closed
       /\ nconn.state = "closed" \/ nconn.closeCalls > 0


\* C39 (SpecJvm): start_jvm does not modify the jvm_args list the caller
\* passes: after the call, whether it succeeded or failed, the caller's list
\* has the elements it had before.
C39_CallerArgsUntouched ==
    [][op'.name = "start_jvm" => callerArgs' = callerArgs]_vars


\* C40 (SpecExecute): Cursor.close() on an open cursor invokes close() on the
\* native result set and on the native statement it holds, on the statement
\* also when closing the result set raised; the cursor ends closed with both
\* references cleared, and nothing is raised to the caller.
C40_CloseReleasesBoth ==
    [][(op'.name = "cursor.close" /\ ~cur.closed)
       => /\ result' = "ok"
          /\ cur'.closed /\ cur'.rs = 0 /\ cur'.stmt = 0
          /\ cur.rs # 0 => HasCall(trace', "rs.close")
          /\ cur.stmt # 0 => HasCall(trace', "stmt.close")]_vars

=============================================================================
